---- MODULE Spec2Model ----
(***************************************************************************)
(* A model of the bifrost reverse proxy (aberezkin/bifrost).               *)
(*                                                                         *)
(* Strings are sequences of one-character strings, so that splitting,      *)
(* joining, the label regex and case folding are computed character by     *)
(* character as the Rust code computes them.                               *)
(*                                                                         *)
(* The module holds several specifications over one set of variables:      *)
(*   SpecHost     host.rs: HostSpec / Hostname parse, match, serialize     *)
(*   SpecMatcher  matchers.rs, route.rs: Matcher::matches, HttpRule::matches*)
(*   Spec         cluster.rs, server.rs: from_config and proxy_request     *)
(*   SpecPrefix   matchers.rs: PathPrefix parse and match                   *)
(*   SpecTcp      stream/tcp.rs: the accept loop of TcpServer::run          *)
(*   SpecRelay    stream/tcp.rs: the task spawned for one client/upstream   *)
(*                pair                                                      *)
(*   SpecBalancer http/service.rs: LoadBalancer::get_connection             *)
(*   SpecService  http/route.rs, http/service.rs: concurrent requests to    *)
(*                one HttpService behind its Mutex                          *)
(*   SpecStreamService  service/mod.rs: TcpService, UdpService              *)
(*   SpecUdp      stream/udp.rs: UdpServer::run (ingress loop, reaper,      *)
(*                serving tasks); SpecUdpLive adds the fairness of the      *)
(*                serving task's select, SpecUdpFair that of the table      *)
(*                mutex and of its holders as well                          *)
(* Each specification leaves the other parts' variables at their idle      *)
(* values.                                                                 *)
(***************************************************************************)
EXTENDS Integers, Sequences, FiniteSets, TLC

VARIABLES
    \* ---- host.rs pipeline (SpecHost)
    hostIn,       \* the string given to HostSpec::from_str
    nameIn,       \* the string given to Hostname::from_str
    specRes,      \* Result<HostSpec, HostSpecParseError>
    nameRes,      \* Result<Hostname, HostnameParseError>
    matched,      \* HostSpec::matches(spec, name)
    serialized,   \* HostSpec::stringify (what Serialize writes)
    reparsed,     \* HostSpec::from_str of the serialized form (Deserialize)
    hpc,          \* position in the pipeline
    \* ---- matchers.rs / route.rs evaluation (SpecMatcher)
    ruleIn,       \* the matchers list of one HttpRule
    reqIn,        \* the request it is evaluated on
    matcherOut,   \* Matcher::matches of each matcher of the list
    ruleOut,      \* HttpRule::matches
    mpc,
    \* ---- cluster.rs / server.rs (Spec)
    route_map,    \* HttpServerCluster::from_config: server name -> routes
    routes,       \* HttpServer.routes, installed at startup
    phase,        \* "config" while from_config runs, then "serving"
    req,          \* the request proxy_request last handled
    outcome,      \* what proxy_request did with it
    \* ---- matchers.rs PathPrefix (SpecPrefix)
    prefixIn,     \* the string given to PathPrefix::from_str
    pathIn,       \* a request path
    restIn,       \* an extension appended to the request path
    prefixRes,    \* PathPrefix::from_str(prefixIn)
    slashRes,     \* PathPrefix::from_str(prefixIn + "/")
    prefixMatched,\* prefixRes.matches(pathIn)
    slashMatched, \* slashRes.matches(pathIn)
    extMatched,   \* prefixRes.matches(pathIn + restIn)
    ppc,
    \* ---- stream/tcp.rs accept loop (SpecTcp)
    listener,     \* TcpServer::run: "accept", "dial", "peer_addr", or "returned"
    stream,       \* the client whose connection the loop holds ("" for none)
    conn,         \* per client: its connection to the proxy
    dial_failed,  \* the clients whose upstream dial failed
    \* ---- stream/tcp.rs per-pair task (SpecRelay)
    client_sent,      \* number of bytes the client has sent
    client_fin,       \* the client has closed its write side
    peer_stream_rx,   \* bytes received from the client, not yet read
    upstream_sent,
    upstream_fin,
    upstream_rx,
    buffer_client,    \* [u8; DEFAULT_BUFFER_SIZE]
    buffer_upstream,
    bytes_read,       \* bytes_from_client / bytes_from_upstream of the branch taken
    write_pos,        \* how much of the slice write_all has written
    read_client,      \* all bytes read from the client, in order
    read_upstream,
    written_upstream, \* all bytes written to the upstream, in order
    written_client,
    upstream_wr,      \* write side of the upstream socket
    peer_stream_wr,   \* write side of the client socket
    last_read,        \* the read that won the last select
    tpc,              \* position of the task
    \* ---- http/service.rs LoadBalancer (SpecBalancer)
    backends,                 \* LoadBalancer.backends (their number)
    current_connection_index, \* LoadBalancer.current_connection_index
    algo,                     \* LoadBalancer.algo
    initial_index,            \* current_connection_index as deserialized
    selections,               \* the results of get_connection so far
    \* ---- http/route.rs, http/service.rs: requests to one HttpService (SpecService)
    cpc,          \* position of each request inside HttpRule::send_request
    via,          \* the rule each request was matched by
    holder,       \* the task holding the service's Mutex ("" when free)
    acquired,     \* the requests in the order they acquired the Mutex
    picked,       \* the index each request handed to backends.get (-1: none)
    svc_outcome,  \* what each request's handler produced
    \* ---- service/mod.rs: TcpService and UdpService (SpecStreamService)
    service_backends,    \* config.backends: the address family of each backend
    service_algo,        \* config.load_balancing_algorithm
    service_selections,  \* the results of get_connection / get_address so far
    \* ---- stream/udp.rs: UdpServer::run (SpecUdp)
    now,            \* Instant::now(), in seconds since run started
    udp_run,        \* the future of run: running, returned (Err) or aborted (panic)
    pending,        \* peer_addr of the datagram the ingress loop has received
    client_map,     \* HashMap<SocketAddr, UdpConnection>: client -> connection (0: none)
    table_lock,     \* the task holding the client_map Mutex ("" when free)
    sockets,        \* the number of ephemeral sockets bound so far
    connections,    \* the UdpConnection built on each ephemeral socket
    task,           \* position of the task serve_bidirectional spawned, per connection
    close_rx,       \* state of each connection's oneshot channel
    peer_addr,      \* source of the datagram the serving task is forwarding
    reaper,         \* the reaper task: position, last tick served, addresses to visit
    sending,        \* the send_to each task is awaiting: socket used and destination
    activity_at     \* when a datagram last flowed on each connection

hostVars == <<hostIn, nameIn, specRes, nameRes, matched, serialized, reparsed, hpc>>
matchVars == <<ruleIn, reqIn, matcherOut, ruleOut, mpc>>
httpVars == <<route_map, routes, phase, req, outcome>>
prefixVars ==
    <<prefixIn, pathIn, restIn, prefixRes, slashRes, prefixMatched, slashMatched, extMatched, ppc>>
acceptVars == <<listener, stream, conn, dial_failed>>
relayVars ==
    <<client_sent, client_fin, peer_stream_rx, upstream_sent, upstream_fin, upstream_rx,
      buffer_client, buffer_upstream, bytes_read, write_pos, read_client, read_upstream,
      written_upstream, written_client, upstream_wr, peer_stream_wr, last_read, tpc>>
lbVars == <<backends, current_connection_index, algo, initial_index, selections>>
svcVars == <<cpc, via, holder, acquired, picked, svc_outcome>>
streamVars == <<service_backends, service_algo, service_selections>>
udpVars ==
    <<now, udp_run, pending, client_map, table_lock, sockets, connections, task, close_rx,
      peer_addr, reaper, sending, activity_at>>
vars ==
    <<hostVars, matchVars, httpVars, prefixVars, acceptVars, relayVars, lbVars, svcVars,
      streamVars, udpVars>>

(***************************************************************************)
(* Bounds of the model.                                                    *)
(***************************************************************************)
MaxLabels == 3      \* labels in a generated host string
MaxMatchers == 2    \* matchers in a generated rule
MaxRoutes == 2      \* routes registered by from_config

(***************************************************************************)
(* Strings.                                                                *)
(***************************************************************************)
RECURSIVE SplitAcc(_, _, _, _, _)
SplitAcc(s, sep, i, cur, acc) ==
    IF i > Len(s) THEN Append(acc, cur)
    ELSE IF s[i] = sep THEN SplitAcc(s, sep, i + 1, <<>>, Append(acc, cur))
    ELSE SplitAcc(s, sep, i + 1, Append(cur, s[i]), acc)

\* str::split(sep).collect(): "" gives one empty segment, "a." gives "a", "".
Split(s, sep) == SplitAcc(s, sep, 1, <<>>, <<>>)

RECURSIVE Join(_, _)
\* [String]::join(sep)
Join(parts, sep) ==
    IF Len(parts) = 0 THEN <<>>
    ELSE IF Len(parts) = 1 THEN parts[1]
    ELSE parts[1] \o <<sep>> \o Join(Tail(parts), sep)

\* Iterator::rev().collect()
Reverse(s) == [i \in 1..Len(s) |-> s[Len(s) + 1 - i]]

RECURSIVE SeqsUpTo(_, _)
\* All sequences over S of length 0..n.
SeqsUpTo(S, n) ==
    IF n = 0 THEN {<<>>}
    ELSE LET shorter == SeqsUpTo(S, n - 1)
         IN  shorter \cup {Append(q, x) : q \in shorter, x \in S}

Ok(v) == [ok |-> TRUE, val |-> v, err |-> "None"]
Err(e) == [ok |-> FALSE, val |-> <<>>, err |-> e]

(***************************************************************************)
(* host.rs                                                                 *)
(***************************************************************************)
Digits == {"0", "1", "2", "5", "9"}
LowerAlnum == {"a", "b", "c", "e", "w"} \cup Digits

DigitVal(c) ==
    CASE c = "0" -> 0 [] c = "1" -> 1 [] c = "2" -> 2 [] c = "5" -> 5 [] c = "9" -> 9

RECURSIVE DecimalVal(_)
DecimalVal(s) ==
    IF Len(s) = 0 THEN 0
    ELSE 10 * DecimalVal(SubSeq(s, 1, Len(s) - 1)) + DigitVal(s[Len(s)])

\* One octet of Ipv4Addr::from_str: 1 to 3 decimal digits, no leading zero,
\* value at most 255.
IsOctet(s) ==
    /\ Len(s) \in 1..3
    /\ \A i \in 1..Len(s) : s[i] \in Digits
    /\ (Len(s) > 1 => s[1] # "0")
    /\ DecimalVal(s) <= 255

\* IpAddr::from_str(value).is_ok(). An IPv6 literal always holds a ':', which
\* is not a character of the strings generated here, so only the IPv4 syntax
\* can succeed.
IsIp(value) ==
    LET parts == Split(value, ".")
    IN  Len(parts) = 4 /\ \A i \in 1..4 : IsOctet(parts[i])

\* Regex ^[a-z0-9]([a-z0-9-]*[a-z0-9])?$
HostLabelRegexIsMatch(label) ==
    /\ Len(label) >= 1
    /\ label[1] \in LowerAlnum
    /\ label[Len(label)] \in LowerAlnum
    /\ \A i \in 1..Len(label) : label[i] \in LowerAlnum \cup {"-"}

RECURSIVE HostSpecParseLabels(_, _, _, _)
\* The loop of HostSpec::from_str over value.split('.').rev()
HostSpecParseLabels(parts, i, labels, wildcard) ==
    IF i > Len(parts) THEN Ok([labels |-> labels, wildcard |-> wildcard])
    ELSE LET label == parts[i]
         IN  IF label = <<>> THEN Err("EmptyLabel")
             ELSE IF wildcard THEN Err("InvalidWildcard")
             ELSE IF label = <<"*">>
                  THEN HostSpecParseLabels(parts, i + 1, labels, TRUE)
             ELSE IF ~HostLabelRegexIsMatch(label) THEN Err("InvalidLabel")
             ELSE HostSpecParseLabels(parts, i + 1, Append(labels, label), wildcard)

HostSpecFromStr(value) ==
    IF IsIp(value) THEN Err("UnexpectedIp")
    ELSE IF value = <<>> THEN Err("EmptyStr")
    ELSE HostSpecParseLabels(Reverse(Split(value, ".")), 1, <<>>, FALSE)

\* impl From<HostSpecParseError> for HostnameParseError
HostnameErrorFrom(e) == IF e = "InvalidWildcard" THEN "UnexpectedWildcard" ELSE e

HostnameFromStr(s) ==
    LET spec == HostSpecFromStr(s)
    IN  IF ~spec.ok THEN Err(HostnameErrorFrom(spec.err))
        ELSE IF spec.val.wildcard THEN Err("UnexpectedWildcard")
        ELSE Ok([labels |-> spec.val.labels])

\* A plausible slip: the wildcard stands for one or more leading labels.
HostSpecMatchesAnyDepth(spec, hostname) ==
    LET m == Len(spec.labels)
        n == Len(hostname.labels)
    IN  /\ IF spec.wildcard THEN n > m ELSE n = m
        /\ \A i \in 1..m : spec.labels[i] = hostname.labels[i]

HostSpecMatches(spec, hostname) ==
    LET wildcard_addition == IF spec.wildcard THEN 1 ELSE 0
        m == Len(spec.labels)
        n == Len(hostname.labels)
        zipped == IF m < n THEN m ELSE n
    IN  IF m + wildcard_addition # n THEN FALSE
        ELSE IF \E i \in 1..zipped : spec.labels[i] # hostname.labels[i] THEN FALSE
        ELSE IF spec.wildcard THEN n > m
        ELSE TRUE

RECURSIVE StringifyLabels(_, _)
StringifyLabels(labels, i) ==
    IF i = 0 THEN <<>>
    ELSE <<".">> \o labels[i] \o StringifyLabels(labels, i - 1)

\* HostSpec::stringify: '*' when wildcard, then '.' and the label for every
\* label from the leftmost to the TLD.
HostSpecStringify(spec) ==
    (IF spec.wildcard THEN <<"*">> ELSE <<>>) \o StringifyLabels(spec.labels, Len(spec.labels))

(***************************************************************************)
(* SpecHost: the inputs and the pipeline.                                  *)
(***************************************************************************)
SpecLabels == {<<>>, <<"*">>, <<"a">>, <<"b">>, <<"-", "a">>}
NameLabels == {<<"a">>, <<"b">>, <<"*">>}

JoinedLabels(L, n) == {Join(q, ".") : q \in SeqsUpTo(L, n) \ {<<>>}}

\* Strings the label pools do not generate: an IPv4 address, labels with an
\* inner or trailing hyphen, an upper-case label.
ExtraHostStrings ==
    { <<"1", ".", "1", ".", "1", ".", "1">>,
      <<"2", "5", "5", ".", "0", ".", "0", ".", "1">>,
      <<"2", "5", "9", ".", "0", ".", "0", ".", "1">>,
      <<"a", "-", "b", ".", "c">>,
      <<"a", "-", ".", "c">>,
      <<"A", ".", "c">> }

HostSpecInputs == {<<>>} \cup JoinedLabels(SpecLabels, MaxLabels) \cup ExtraHostStrings
HostnameInputs == {<<>>} \cup JoinedLabels(NameLabels, MaxLabels)

NoResult == Err("NotRun")

HostIdle ==
    /\ hostIn = <<>>
    /\ nameIn = <<>>
    /\ specRes = NoResult
    /\ nameRes = NoResult
    /\ matched = FALSE
    /\ serialized = <<>>
    /\ reparsed = NoResult
    /\ hpc = "idle"

HostInit ==
    /\ hostIn \in HostSpecInputs
    /\ nameIn \in HostnameInputs
    /\ specRes = NoResult
    /\ nameRes = NoResult
    /\ matched = FALSE
    /\ serialized = <<>>
    /\ reparsed = NoResult
    /\ hpc = "input"

HostFrame ==
    UNCHANGED <<matchVars, httpVars, prefixVars, acceptVars, relayVars, lbVars, svcVars,
               streamVars, udpVars>>

\* HostSpec::from_str and Hostname::from_str of the two inputs.
HostParse ==
    /\ hpc = "input"
    /\ specRes' = HostSpecFromStr(hostIn)
    /\ nameRes' = HostnameFromStr(nameIn)
    /\ hpc' = "parsed"
    /\ UNCHANGED <<hostIn, nameIn, matched, serialized, reparsed>>
    /\ HostFrame

\* spec.matches(&hostname)
HostMatch ==
    /\ hpc = "parsed"
    /\ specRes.ok /\ nameRes.ok
    /\ matched' = HostSpecMatches(specRes.val, nameRes.val)
    /\ hpc' = "matched"
    /\ UNCHANGED <<hostIn, nameIn, specRes, nameRes, serialized, reparsed>>
    /\ HostFrame

\* impl Serialize for HostSpec
HostSerialize ==
    /\ hpc \in {"parsed", "matched"}
    /\ specRes.ok
    /\ serialized' = HostSpecStringify(specRes.val)
    /\ hpc' = "serialized"
    /\ UNCHANGED <<hostIn, nameIn, specRes, nameRes, matched, reparsed>>
    /\ HostFrame

\* impl Deserialize for HostSpec, on what Serialize wrote
HostDeserialize ==
    /\ hpc = "serialized"
    /\ reparsed' = HostSpecFromStr(serialized)
    /\ hpc' = "reparsed"
    /\ UNCHANGED <<hostIn, nameIn, specRes, nameRes, matched, serialized>>
    /\ HostFrame

HostNext == HostParse \/ HostMatch \/ HostSerialize \/ HostDeserialize

(***************************************************************************)
(* matchers.rs                                                             *)
(*                                                                         *)
(* Option<T> is a sequence of length 0 (None) or 1 (Some).                 *)
(* A request is [path, method, headers]; headers is the HeaderMap as the   *)
(* list of (name, value) pairs in arrival order, names in lower case as    *)
(* hyper stores them, values visible ASCII (HeaderValue::to_str succeeds   *)
(* on every value generated here).                                         *)
(***************************************************************************)
None == <<>>
Some(v) == <<v>>

\* PathPrefix::from_str. itertools' tuples() groups the segments in
\* non-overlapping pairs (1st, 2nd), (3rd, 4th), ... and drops an odd last one.
PathPrefixFromStr(string) ==
    LET segments == Split(string, "/")
        n == Len(segments)
    IN  IF n = 0 THEN Err("Empty")
        ELSE IF segments[1] # <<>> THEN Err("NoSlashPrefix")
        ELSE IF \E k \in 1..(n \div 2) :
                    segments[2 * k - 1] = <<>> /\ segments[2 * k] = <<>>
             THEN Err("ConsecutiveSlashes")
        ELSE IF segments[n] = <<>> THEN Ok(SubSeq(segments, 1, n - 1))
        ELSE Ok(segments)

\* A plausible slip: the prefix is compared as a raw string
\* (value_to_match.starts_with(prefix)), not segment by segment.
PathPrefixMatchesRawString(prefix, value_to_match) ==
    LET joined == Join(prefix, "/")
    IN  /\ Len(value_to_match) >= Len(joined)
        /\ SubSeq(value_to_match, 1, Len(joined)) = joined

\* A plausible slip: the length test is != instead of <.
PathPrefixMatchesSameLength(prefix, value_to_match) ==
    LET segments == Split(value_to_match, "/")
    IN  IF Len(segments) # Len(prefix) THEN FALSE
        ELSE \A i \in 1..Len(prefix) : segments[i] = prefix[i]

\* PathPrefix::matches
PathPrefixMatches(prefix, value_to_match) ==
    LET segments == Split(value_to_match, "/")
    IN  IF Len(segments) < Len(prefix) THEN FALSE
        ELSE \A i \in 1..Len(prefix) : segments[i] = prefix[i]

\* Regex::is_match for the patterns generated here: a literal, optionally
\* anchored with ^ and with $. Without an anchor it matches anywhere.
RegexIsMatch(re, text) ==
    \E i \in 1..(Len(text) - Len(re.lit) + 1) :
        /\ SubSeq(text, i, i + Len(re.lit) - 1) = re.lit
        /\ (re.start => i = 1)
        /\ (re.end => i + Len(re.lit) - 1 = Len(text))

NoRegex == [lit |-> <<>>, start |-> FALSE, end |-> FALSE]

\* The variants of enum PathMatch; the field of the variant holds its value.
PathExact(value) == [type |-> "Exact", text |-> value, segments |-> <<>>, regex |-> NoRegex]
PathPrefix(value) == [type |-> "Prefix", text |-> <<>>, segments |-> value, regex |-> NoRegex]
PathRegex(value) == [type |-> "Regex", text |-> <<>>, segments |-> <<>>, regex |-> value]

\* PathMatch::matches
PathMatchMatches(pm, value_to_match) ==
    CASE pm.type = "Exact" -> value_to_match = pm.text
      [] pm.type = "Prefix" -> PathPrefixMatches(pm.segments, value_to_match)
      [] pm.type = "Regex" -> RegexIsMatch(pm.regex, value_to_match)

\* MethodMatch::matches
MethodMatchMatches(mm, req_method) == mm = req_method

LowerChar(c) ==
    CASE c = "A" -> "a" [] c = "B" -> "b" [] c = "H" -> "h" [] OTHER -> c

\* The normalisation HeaderMap::get applies to a &str key.
LowerName(name) == [i \in 1..Len(name) |-> LowerChar(name[i])]

RECURSIVE HeaderFind(_, _, _)
HeaderFind(header_map, key, i) ==
    IF i > Len(header_map) THEN None
    ELSE IF header_map[i].name = key THEN Some(header_map[i].value)
    ELSE HeaderFind(header_map, key, i + 1)

\* HeaderMap::get(name): the first value stored under the name, looked up
\* without regard to case.
HeaderGet(header_map, name) == HeaderFind(header_map, LowerName(name), 1)

\* HeaderMatch::matches
HeaderMatchMatches(hm, header_map) ==
    LET got == HeaderGet(header_map, hm.name)
    IN  IF got = None THEN FALSE
        ELSE CASE hm.type = "Exact" -> got[1] = hm.value
                        [] hm.type = "Regex" -> RegexIsMatch(hm.regex, got[1])

\* A plausible slip: the method field is not consulted.
MatcherMatchesNoMethod(m, r) ==
    LET path_match ==
            IF m.path = None THEN TRUE ELSE PathMatchMatches(m.path[1], r.path)
        headers_match ==
            IF m.headers = None THEN TRUE
            ELSE \A i \in 1..Len(m.headers[1]) :
                    HeaderMatchMatches(m.headers[1][i], r.headers)
    IN  path_match /\ headers_match

\* Matcher::matches
MatcherMatches(m, r) ==
    LET path_match ==
            IF m.path = None THEN TRUE ELSE PathMatchMatches(m.path[1], r.path)
        method_match ==
            IF m.method = None THEN TRUE ELSE MethodMatchMatches(m.method[1], r.method)
        headers_match ==
            IF m.headers = None THEN TRUE
            ELSE \A i \in 1..Len(m.headers[1]) :
                    HeaderMatchMatches(m.headers[1][i], r.headers)
    IN  path_match /\ method_match /\ headers_match

(***************************************************************************)
(* route.rs                                                                *)
(***************************************************************************)
\* HttpRule::matches
HttpRuleMatches(matchers, r) ==
    IF Len(matchers) = 0 THEN TRUE
    ELSE \A i \in 1..Len(matchers) : MatcherMatches(matchers[i], r)

RECURSIVE FindRuleFrom(_, _, _)
FindRuleFrom(rules, r, i) ==
    IF i > Len(rules) THEN 0
    ELSE IF HttpRuleMatches(rules[i].matchers, r) THEN i
    ELSE FindRuleFrom(rules, r, i + 1)

\* A plausible slip: the last matching rule wins.
FindMatchingRuleLast(rules, r) ==
    LET hits == {i \in 1..Len(rules) : HttpRuleMatches(rules[i].matchers, r)}
    IN  IF hits = {} THEN 0 ELSE CHOOSE i \in hits : \A j \in hits : j <= i

\* HttpRoute::find_matching_rule: the index of the rule found, 0 for None.
FindMatchingRule(rules, r) == FindRuleFrom(rules, r, 1)

(***************************************************************************)
(* SpecMatcher: Matcher::matches and HttpRule::matches on generated        *)
(* matchers and requests.                                                  *)
(***************************************************************************)
Str_x == <<"/", "x">>
Str_xy == <<"/", "x", "/", "y">>
Str_xx == <<"/", "x", "x">>
Str_y == <<"/", "y">>
Name_a == <<"a">>
Name_A == <<"A">>
Name_b == <<"b">>
Name_host == <<"h", "o", "s", "t">>
Val_1 == <<"1">>
Val_2 == <<"2">>

\* The variants of enum HeaderMatch.
HeaderExact(name, value) == [type |-> "Exact", name |-> name, value |-> value, regex |-> NoRegex]
HeaderRegex(name, value) == [type |-> "Regex", name |-> name, value |-> <<>>, regex |-> value]

PathOptions ==
    { None,
      Some(PathExact(Str_x)),
      Some(PathPrefix(PathPrefixFromStr(Str_x).val)),
      Some(PathRegex([lit |-> Str_x, start |-> FALSE, end |-> TRUE])) }

MethodOptions == {None, Some("GET")}

HeadersOptions ==
    { None,
      Some(<<HeaderExact(Name_a, Val_1)>>),
      Some(<<HeaderExact(Name_a, Val_1), HeaderExact(Name_A, Val_2)>>),
      Some(<<HeaderExact(Name_a, Val_1), HeaderExact(Name_b, Val_1)>>),
      Some(<<HeaderRegex(Name_a, [lit |-> Val_1, start |-> TRUE, end |-> FALSE])>>) }

MatcherPool ==
    { [path |-> p, method |-> m, headers |-> h] :
        p \in PathOptions, m \in MethodOptions, h \in HeadersOptions }

\* The matchers of generated multi-matcher rules: one field each, and one
\* with two fields.
RuleMatcherPool ==
    { m \in MatcherPool :
        \/ m.headers = None /\ (m.path = None \/ m.method = None)
             /\ (m.path = None \/ m.path[1].type # "Regex")
        \/ m.path = None /\ m.method = None /\ m.headers = Some(<<HeaderExact(Name_a, Val_1)>>) }

RuleInputs == {<<m>> : m \in MatcherPool} \cup SeqsUpTo(RuleMatcherPool, MaxMatchers)

MatchRequests ==
    { [path |-> p, method |-> m, headers |-> h] :
        p \in {Str_x, Str_xy, Str_xx, Str_y},
        m \in {"GET", "POST"},
        h \in { <<>>,
                <<[name |-> Name_a, value |-> Val_1]>>,
                <<[name |-> Name_a, value |-> Val_2]>>,
                <<[name |-> Name_a, value |-> Val_1], [name |-> Name_b, value |-> Val_1]>> } }

NoRequest == [path |-> <<>>, method |-> "", headers |-> <<>>]

MatchIdle ==
    /\ ruleIn = <<>>
    /\ reqIn = NoRequest
    /\ matcherOut = <<>>
    /\ ruleOut = FALSE
    /\ mpc = "idle"

MatchInit ==
    /\ ruleIn \in RuleInputs
    /\ reqIn \in MatchRequests
    /\ matcherOut = <<>>
    /\ ruleOut = FALSE
    /\ mpc = "input"

MatchFrame ==
    UNCHANGED <<hostVars, httpVars, prefixVars, acceptVars, relayVars, lbVars, svcVars,
               streamVars, udpVars>>

\* matcher.matches(req) for each matcher of the rule
MatcherEval ==
    /\ mpc = "input"
    /\ matcherOut' = [i \in 1..Len(ruleIn) |-> MatcherMatches(ruleIn[i], reqIn)]
    /\ mpc' = "matchers"
    /\ UNCHANGED <<ruleIn, reqIn, ruleOut>>
    /\ MatchFrame

\* rule.matches(req)
RuleEval ==
    /\ mpc = "matchers"
    /\ ruleOut' = HttpRuleMatches(ruleIn, reqIn)
    /\ mpc' = "rule"
    /\ UNCHANGED <<ruleIn, reqIn, matcherOut>>
    /\ MatchFrame

MatchNext == MatcherEval \/ RuleEval

(***************************************************************************)
(* cluster.rs and server.rs                                                *)
(***************************************************************************)
ServerNames == {"web"}          \* config.servers
ServiceNames == {"s1", "s2"}    \* config.services
\* The names a route's `server` field may hold: a configured server, or a name
\* no server carries.
RouteServerNames == ServerNames \cup {"ghost"}

RECURSIVE FindRouteFrom(_, _, _)
FindRouteFrom(rs, host, i) ==
    IF i > Len(rs) THEN 0
    ELSE IF \E k \in 1..Len(rs[i].hostnames) : HostSpecMatches(rs[i].hostnames[k], host)
         THEN i
    ELSE FindRouteFrom(rs, host, i + 1)

\* A plausible slip: the last matching route wins.
FindRouteLast(rs, host) ==
    LET hits == {i \in 1..Len(rs) :
                    \E k \in 1..Len(rs[i].hostnames) :
                        HostSpecMatches(rs[i].hostnames[k], host)}
    IN  IF hits = {} THEN 0 ELSE CHOOSE i \in hits : \A j \in hits : j <= i

\* routes.iter().find(|route| route.hostnames.iter().any(|h| h.matches(&host))):
\* the index of the route found, 0 for None.
FindRoute(rs, host) == FindRouteFrom(rs, host, 1)

\* What proxy_request does with a request.
\*   kind "panic":     an unwrap failed; the handler returns no response
\*   kind "response":  the handler answers itself, with the status given
\*   kind "forwarded": rule.send_request(req) hands the request to a backend
\* route and rule are the indices selected (0: none).
\* server is the HttpServer that took the request.
Panicked ==
    [kind |-> "panic", status |-> 0, backend |-> "", route |-> 0, rule |-> 0, server |-> ""]
Responded(status, ri) ==
    [kind |-> "response", status |-> status, backend |-> "", route |-> ri, rule |-> 0,
     server |-> ""]
Forwarded(backend, ri, ki) ==
    [kind |-> "forwarded", status |-> 0, backend |-> backend, route |-> ri, rule |-> ki,
     server |-> ""]
NoOutcome ==
    [kind |-> "none", status |-> 0, backend |-> "", route |-> 0, rule |-> 0, server |-> ""]

\* Response::new(body): the status of a response built without one.
StatusOk == 200
\* not_found(): Response::builder().status(StatusCode::NOT_FOUND)
StatusNotFound == 404

\* A plausible slip: a route none of whose rules matches is passed over, and
\* the lookup goes on to the later routes that match the Host.
ProxyRequestOutcomeFallThrough(rs, r) ==
    LET host_header == HeaderGet(r.headers, Name_host)
    IN  IF host_header = None THEN Panicked
        ELSE LET host == HostnameFromStr(host_header[1])
             IN  IF ~host.ok THEN Panicked
                 ELSE LET ri == FindRoute(rs, host.val)
                          both == {i \in 1..Len(rs) :
                                      /\ \E k \in 1..Len(rs[i].hostnames) :
                                             HostSpecMatches(rs[i].hostnames[k], host.val)
                                      /\ FindMatchingRule(rs[i].rules, r) # 0}
                      IN  IF ri = 0 THEN Responded(StatusOk, 0)
                          ELSE IF both = {} THEN Responded(StatusNotFound, ri)
                          ELSE LET bi == CHOOSE i \in both : \A j \in both : i <= j
                                   ki == FindMatchingRule(rs[bi].rules, r)
                               IN  Forwarded(rs[bi].rules[ki].backend, bi, ki)

\* HttpServer::proxy_request
ProxyRequestOutcome(rs, r) ==
    LET host_header == HeaderGet(r.headers, Name_host)
    IN  IF host_header = None THEN Panicked
        ELSE LET host == HostnameFromStr(host_header[1])
             IN  IF ~host.ok THEN Panicked
                 ELSE LET ri == FindRoute(rs, host.val)
                      IN  IF ri = 0 THEN Responded(StatusOk, 0)
                          ELSE LET ki == FindMatchingRule(rs[ri].rules, r)
                               IN  IF ki = 0 THEN Responded(StatusNotFound, ri)
                                   ELSE Forwarded(rs[ri].rules[ki].backend, ri, ki)

\* The HttpRoute from_config builds from one HttpRouteConfig.
RouteFromConfig(rc) ==
    [ hostnames |-> IF rc.hostnames = None THEN <<>> ELSE rc.hostnames[1],
      rules |-> [i \in 1..Len(rc.rules) |->
                    [matchers |-> rc.rules[i].matches, backend |-> rc.rules[i].backend]] ]

(***************************************************************************)
(* Spec: the configurations and requests generated.                        *)
(***************************************************************************)
Host_aec == <<"a", ".", "e", ".", "c">>
Host_wec == <<"w", ".", "e", ".", "c">>
Host_ec == <<"e", ".", "c">>
Host_awec == <<"a", ".", "w", ".", "e", ".", "c">>
Host_star_ec == <<"*", ".", "e", ".", "c">>
Host_bad == <<"-", "a", ".", "c">>
Host_ip == <<"1", ".", "1", ".", "1", ".", "1">>

Spec_aec == HostSpecFromStr(Host_aec).val
Spec_star_ec == HostSpecFromStr(Host_star_ec).val

HostnamesOptions ==
    { None,
      Some(<<>>),
      Some(<<Spec_aec>>),
      Some(<<Spec_star_ec>>),
      Some(<<Spec_aec, Spec_star_ec>>) }

M_any == [path |-> None, method |-> None, headers |-> None]
M_path_x == [path |-> Some(PathExact(Str_x)), method |-> None, headers |-> None]
M_get == [path |-> None, method |-> Some("GET"), headers |-> None]

RuleConfig(matches, backend) == [matches |-> matches, backend |-> backend]

RulesOptions ==
    { <<>>,
      <<RuleConfig(<<>>, "s1")>>,
      <<RuleConfig(<<M_path_x>>, "s1"), RuleConfig(<<M_get>>, "s2")>>,
      <<RuleConfig(<<M_get, M_path_x>>, "s2"), RuleConfig(<<M_get>>, "s1")>>,
      <<RuleConfig(<<>>, "s9")>> }      \* s9 is no configured service

\* The routes of a configured server, and a few that name no configured
\* server (what such a route holds is never looked at).
RouteConfigs ==
    { [server |-> sv, hostnames |-> h, rules |-> rs] :
        sv \in ServerNames, h \in HostnamesOptions, rs \in RulesOptions }
    \cup
    { [server |-> sv, hostnames |-> h, rules |-> <<RuleConfig(<<>>, b)>>] :
        sv \in RouteServerNames \ ServerNames, h \in {None, Some(<<Spec_aec>>)},
        b \in {"s1", "s9"} }

HostHeaders ==
    { <<>> } \cup
    { <<[name |-> Name_host, value |-> v]>> :
        v \in {<<>>, Host_ip, Host_star_ec, Host_bad, Host_aec, Host_wec, Host_ec, Host_awec} }

Requests ==
    { [path |-> p, method |-> m, headers |-> h] :
        p \in {Str_x, Str_y}, m \in {"GET", "POST"}, h \in HostHeaders }

HttpIdle ==
    /\ route_map = [sv \in RouteServerNames |-> <<>>]
    /\ routes = [sv \in ServerNames |-> <<>>]
    /\ phase = "idle"
    /\ req = NoRequest
    /\ outcome = NoOutcome

HttpInit ==
    /\ route_map = [sv \in RouteServerNames |-> <<>>]
    /\ routes = [sv \in ServerNames |-> <<>>]
    /\ phase = "config"
    /\ req = NoRequest
    /\ outcome = NoOutcome

HttpFrame ==
    UNCHANGED <<hostVars, matchVars, prefixVars, acceptVars, relayVars, lbVars, svcVars,
               streamVars, udpVars>>

RoutesRegistered == Len(route_map["web"]) + Len(route_map["ghost"])

\* One iteration of `for route in routes` in HttpServerCluster::from_config:
\* the route is built and pushed to its server's entry of route_map.
\* services_map.get(&rule.backend).unwrap() aborts startup for an unknown backend.
FromConfigRoute(rc) ==
    /\ phase = "config"
    /\ RoutesRegistered < MaxRoutes
    /\ IF \E i \in 1..Len(rc.rules) : rc.rules[i].backend \notin ServiceNames
       THEN /\ phase' = "aborted"
            /\ UNCHANGED route_map
       ELSE /\ route_map' = [route_map EXCEPT ![rc.server] = Append(@, RouteFromConfig(rc))]
            /\ UNCHANGED phase
    /\ UNCHANGED <<routes, req, outcome>>
    /\ HttpFrame

\* The end of from_config: each configured server takes its routes out of
\* route_map (none registered: the default, no routes), and run_all starts it.
\* What no server took is still in route_map, and is dropped with it when
\* from_config returns.
StartServers ==
    /\ phase = "config"
    /\ routes' = [sv \in ServerNames |-> route_map[sv]]
    /\ route_map' = [sv \in RouteServerNames |->
                        IF sv \in ServerNames THEN <<>> ELSE route_map[sv]]
    /\ phase' = "serving"
    /\ UNCHANGED <<req, outcome>>
    /\ HttpFrame

\* One request served by HttpServer::proxy_request. A connection serves its
\* requests one after the other: the next is taken once the previous one's
\* response is written (Complete).
ProxyRequest(sv, r) ==
    /\ phase = "serving"
    /\ outcome = NoOutcome
    /\ req' = r
    /\ outcome' = [ProxyRequestOutcome(routes[sv], r) EXCEPT !.server = sv]
    /\ UNCHANGED <<route_map, routes, phase>>
    /\ HttpFrame

\* The handler's future resolves (or its task ends, after a panic).
Complete ==
    /\ phase = "serving"
    /\ outcome # NoOutcome
    /\ req' = NoRequest
    /\ outcome' = NoOutcome
    /\ UNCHANGED <<route_map, routes, phase>>
    /\ HttpFrame

HttpNext ==
    \/ \E rc \in RouteConfigs : FromConfigRoute(rc)
    \/ StartServers
    \/ Complete
    \/ \E sv \in ServerNames, r \in Requests : ProxyRequest(sv, r)

(***************************************************************************)
(* SpecPrefix: PathPrefix::from_str and PathPrefix::matches on generated   *)
(* prefix definitions and request paths.                                   *)
(***************************************************************************)
MaxSegments == 5    \* segments of a generated prefix definition

PrefixSegments == {<<>>, <<"a">>, <<"a", "b">>}

\* The definitions generated: every string that splits on '/' into at most
\* MaxSegments of the segments above ("" is the string of one empty segment).
PrefixInputs == {Join(q, "/") : q \in SeqsUpTo(PrefixSegments, MaxSegments) \ {<<>>}}

Str_empty == <<>>
Str_slash == <<"/">>
Str_a == <<"/", "a">>
Str_a_slash == <<"/", "a", "/">>
Str_ab == <<"/", "a", "b">>
Str_ab_slash == <<"/", "a", "b", "/">>
Str_ab_a == <<"/", "a", "b", "/", "a">>
Str_aba == <<"/", "a", "b", "a">>
Str_a_ab == <<"/", "a", "/", "a", "b">>
Str_a_a_ab == <<"/", "a", "/", "a", "/", "a", "b">>
Str_slash_slash == <<"/", "/">>
Str_slash_slash_a == <<"/", "/", "a">>
Str_a_slash_slash_ab == <<"/", "a", "/", "/", "a", "b">>
Str_noslash == <<"a">>

PathInputs ==
    { Str_empty, Str_slash, Str_a, Str_a_slash, Str_ab, Str_ab_slash, Str_ab_a, Str_aba,
      Str_a_ab, Str_a_a_ab, Str_slash_slash_a, Str_a_slash_slash_ab, Str_noslash }

\* Extensions of a request path: non-empty, beginning with '/'.
RestInputs == {Str_slash, Str_a, Str_slash_slash, Str_ab_a}

PrefixIdle ==
    /\ prefixIn = <<>>
    /\ pathIn = <<>>
    /\ restIn = <<>>
    /\ prefixRes = NoResult
    /\ slashRes = NoResult
    /\ prefixMatched = FALSE
    /\ slashMatched = FALSE
    /\ extMatched = FALSE
    /\ ppc = "idle"

PrefixInit ==
    /\ prefixIn \in PrefixInputs
    /\ pathIn \in PathInputs
    /\ restIn \in RestInputs
    /\ prefixRes = NoResult
    /\ slashRes = NoResult
    /\ prefixMatched = FALSE
    /\ slashMatched = FALSE
    /\ extMatched = FALSE
    /\ ppc = "input"

PrefixFrame ==
    UNCHANGED <<hostVars, matchVars, httpVars, acceptVars, relayVars, lbVars, svcVars,
               streamVars, udpVars>>

\* PathPrefix::from_str of the definition
PrefixParse ==
    /\ ppc = "input"
    /\ prefixRes' = PathPrefixFromStr(prefixIn)
    /\ ppc' = "parsed"
    /\ UNCHANGED <<prefixIn, pathIn, restIn, slashRes, prefixMatched, slashMatched, extMatched>>
    /\ PrefixFrame

\* PathPrefix::from_str of the definition with a '/' appended
PrefixParseSlashed ==
    /\ ppc = "parsed"
    /\ slashRes' = PathPrefixFromStr(prefixIn \o <<"/">>)
    /\ ppc' = "both_parsed"
    /\ UNCHANGED <<prefixIn, pathIn, restIn, prefixRes, prefixMatched, slashMatched, extMatched>>
    /\ PrefixFrame

\* prefix.matches(path), for the prefix and for the one parsed from the
\* definition with a '/' appended (when that parsed)
PrefixMatch ==
    /\ ppc = "both_parsed"
    /\ prefixRes.ok
    /\ prefixMatched' = PathPrefixMatches(prefixRes.val, pathIn)
    /\ slashMatched' = (slashRes.ok /\ PathPrefixMatches(slashRes.val, pathIn))
    /\ ppc' = "matched"
    /\ UNCHANGED <<prefixIn, pathIn, restIn, prefixRes, slashRes, extMatched>>
    /\ PrefixFrame

\* prefix.matches(path + rest)
PrefixMatchExtended ==
    /\ ppc = "matched"
    /\ extMatched' = PathPrefixMatches(prefixRes.val, pathIn \o restIn)
    /\ ppc' = "extended"
    /\ UNCHANGED <<prefixIn, pathIn, restIn, prefixRes, slashRes, prefixMatched, slashMatched>>
    /\ PrefixFrame

PrefixNext == PrefixParse \/ PrefixParseSlashed \/ PrefixMatch \/ PrefixMatchExtended

(***************************************************************************)
(* stream/tcp.rs: the accept loop of TcpServer::run (SpecTcp).             *)
(*                                                                         *)
(* The listener is bound; clients connect, the loop accepts one, dials the *)
(* upstream, reads the peer address and spawns the pair's task. A `?` on   *)
(* any of these returns from run: the listener and the connection the loop *)
(* holds are dropped. Spawned tasks live on their own.                     *)
(***************************************************************************)
Clients == {"c1", "c2", "c3"}

TcpIdle ==
    /\ listener = "idle"
    /\ stream = ""
    /\ conn = [c \in Clients |-> "none"]
    /\ dial_failed = {}

TcpInit ==
    /\ listener = "accept"
    /\ stream = ""
    /\ conn = [c \in Clients |-> "none"]
    /\ dial_failed = {}

TcpFrame ==
    UNCHANGED <<hostVars, matchVars, httpVars, prefixVars, relayVars, lbVars, svcVars,
               streamVars, udpVars>>

\* What run's return does to the connections: the one the loop holds is
\* dropped, and so is the listener with the connections waiting in its queue.
ConnAfterReturn ==
    [c \in Clients |-> IF c = stream \/ conn[c] = "queued" THEN "closed" ELSE conn[c]]

\* A client connects to the listening port.
ClientConnect(c) ==
    /\ listener \in {"accept", "dial", "peer_addr"}
    /\ conn[c] = "none"
    /\ conn' = [conn EXCEPT ![c] = "queued"]
    /\ UNCHANGED <<listener, stream, dial_failed>>
    /\ TcpFrame

\* let (stream, _) = listener.accept().await?   -- Ok
Accept(c) ==
    /\ listener = "accept"
    /\ conn[c] = "queued"
    /\ stream' = c
    /\ conn' = [conn EXCEPT ![c] = "accepted"]
    /\ listener' = "dial"
    /\ UNCHANGED dial_failed
    /\ TcpFrame

\* listener.accept().await?   -- Err
AcceptError ==
    /\ listener = "accept"
    /\ conn' = ConnAfterReturn
    /\ listener' = "returned"
    /\ UNCHANGED <<stream, dial_failed>>
    /\ TcpFrame

\* let mut upstream = self.service.get_connection().await?   -- Ok
DialOk ==
    /\ listener = "dial"
    /\ listener' = "peer_addr"
    /\ UNCHANGED <<stream, conn, dial_failed>>
    /\ TcpFrame

\* self.service.get_connection().await?   -- Err
DialError ==
    /\ listener = "dial"
    /\ dial_failed' = dial_failed \cup {stream}
    /\ conn' = ConnAfterReturn
    /\ stream' = ""
    /\ listener' = "returned"
    /\ TcpFrame

\* let peer_addr = stream.peer_addr()?   -- Ok, then tokio::spawn of the pair
SpawnPair ==
    /\ listener = "peer_addr"
    /\ conn' = [conn EXCEPT ![stream] = "relaying"]
    /\ stream' = ""
    /\ listener' = "accept"
    /\ UNCHANGED dial_failed
    /\ TcpFrame

\* stream.peer_addr()?   -- Err
PeerAddrError ==
    /\ listener = "peer_addr"
    /\ conn' = ConnAfterReturn
    /\ stream' = ""
    /\ listener' = "returned"
    /\ UNCHANGED dial_failed
    /\ TcpFrame

\* The task of a pair ends (EOF on a side, or a panic inside the task).
PairTaskEnds(c) ==
    /\ conn[c] = "relaying"
    /\ conn' = [conn EXCEPT ![c] = "closed"]
    /\ UNCHANGED <<listener, stream, dial_failed>>
    /\ TcpFrame

TcpNext ==
    \/ \E c \in Clients : ClientConnect(c)
    \/ \E c \in Clients : Accept(c)
    \/ AcceptError
    \/ DialOk
    \/ DialError
    \/ SpawnPair
    \/ PeerAddrError
    \/ \E c \in Clients : PairTaskEnds(c)

(***************************************************************************)
(* stream/tcp.rs: the task spawned for one client/upstream pair            *)
(* (SpecRelay).                                                            *)
(*                                                                         *)
(* The client sends the bytes 1, 2, ... and the upstream the bytes -1, -2, *)
(* ..., so that a lost, repeated or misplaced byte shows. A read takes     *)
(* between one byte and what fits the buffer; write_all writes the slice   *)
(* in one or more writes. An Err from read, shutdown or write_all is       *)
(* unwrapped: the task panics and both streams are dropped.                *)
(***************************************************************************)
MaxBytes == 3       \* bytes each side sends
BufferSize == 2     \* DEFAULT_BUFFER_SIZE, scaled down

ClientByte(i) == i
UpstreamByte(i) == 0 - i

EmptyBuffer == [i \in 1..BufferSize |-> 0]
NoRead == [side |-> "none", n |-> 0, ok |-> TRUE]

\* stream.read(&mut buffer) returning n: the first n bytes of the buffer are
\* overwritten with the first n bytes received.
BufferAfterRead(buffer, rx, n) ==
    [i \in 1..BufferSize |-> IF i <= n THEN rx[i] ELSE buffer[i]]

\* The read future select! drops: read() is cancel safe, the stream keeps
\* every byte it had.
CancelledRead(rx) == rx

\* A plausible slip: the whole buffer is written, not the bytes just read.
WholeBuffer(buffer, n) == buffer

\* &buffer[..n]
Slice(buffer, n) == SubSeq(buffer, 1, n)

\* A plausible slip: write() in place of write_all(): one write, however
\* short, and the loop goes on.
WriteOnce(pos, len) == pos >= 1

\* write_all returns Ok when the whole slice is written.
WriteAllComplete(pos, len) == pos = len

RelayIdle ==
    /\ client_sent = 0
    /\ client_fin = FALSE
    /\ peer_stream_rx = <<>>
    /\ upstream_sent = 0
    /\ upstream_fin = FALSE
    /\ upstream_rx = <<>>
    /\ buffer_client = EmptyBuffer
    /\ buffer_upstream = EmptyBuffer
    /\ bytes_read = 0
    /\ write_pos = 0
    /\ read_client = <<>>
    /\ read_upstream = <<>>
    /\ written_upstream = <<>>
    /\ written_client = <<>>
    /\ upstream_wr = "open"
    /\ peer_stream_wr = "open"
    /\ last_read = NoRead
    /\ tpc = "idle"

RelayInit ==
    /\ client_sent = 0
    /\ client_fin = FALSE
    /\ peer_stream_rx = <<>>
    /\ upstream_sent = 0
    /\ upstream_fin = FALSE
    /\ upstream_rx = <<>>
    /\ buffer_client = EmptyBuffer
    /\ buffer_upstream = EmptyBuffer
    /\ bytes_read = 0
    /\ write_pos = 0
    /\ read_client = <<>>
    /\ read_upstream = <<>>
    /\ written_upstream = <<>>
    /\ written_client = <<>>
    /\ upstream_wr = "open"
    /\ peer_stream_wr = "open"
    /\ last_read = NoRead
    /\ tpc = "select"

RelayFrame ==
    UNCHANGED <<hostVars, matchVars, httpVars, prefixVars, acceptVars, lbVars, svcVars,
               streamVars, udpVars>>

TaskRunning == tpc \in {"select", "write_upstream", "write_client"}

\* The client sends its next byte.
ClientSend ==
    /\ TaskRunning
    /\ ~client_fin
    /\ client_sent < MaxBytes
    /\ client_sent' = client_sent + 1
    /\ peer_stream_rx' = Append(peer_stream_rx, ClientByte(client_sent + 1))
    /\ UNCHANGED <<client_fin, upstream_sent, upstream_fin, upstream_rx, buffer_client,
                   buffer_upstream, bytes_read, write_pos, read_client, read_upstream,
                   written_upstream, written_client, upstream_wr, peer_stream_wr,
                   last_read, tpc>>
    /\ RelayFrame

\* The client closes its write side.
ClientShutdown ==
    /\ TaskRunning
    /\ ~client_fin
    /\ client_fin' = TRUE
    /\ UNCHANGED <<client_sent, peer_stream_rx, upstream_sent, upstream_fin, upstream_rx,
                   buffer_client, buffer_upstream, bytes_read, write_pos, read_client,
                   read_upstream, written_upstream, written_client, upstream_wr,
                   peer_stream_wr, last_read, tpc>>
    /\ RelayFrame

\* The upstream sends its next byte.
UpstreamSend ==
    /\ TaskRunning
    /\ ~upstream_fin
    /\ upstream_sent < MaxBytes
    /\ upstream_sent' = upstream_sent + 1
    /\ upstream_rx' = Append(upstream_rx, UpstreamByte(upstream_sent + 1))
    /\ UNCHANGED <<client_sent, client_fin, peer_stream_rx, upstream_fin, buffer_client,
                   buffer_upstream, bytes_read, write_pos, read_client, read_upstream,
                   written_upstream, written_client, upstream_wr, peer_stream_wr,
                   last_read, tpc>>
    /\ RelayFrame

\* The upstream closes its write side.
UpstreamShutdown ==
    /\ TaskRunning
    /\ ~upstream_fin
    /\ upstream_fin' = TRUE
    /\ UNCHANGED <<client_sent, client_fin, peer_stream_rx, upstream_sent, upstream_rx,
                   buffer_client, buffer_upstream, bytes_read, write_pos, read_client,
                   read_upstream, written_upstream, written_client, upstream_wr,
                   peer_stream_wr, last_read, tpc>>
    /\ RelayFrame

\* select!: the client branch wins with n > 0 bytes.
ReadClient(n) ==
    /\ tpc = "select"
    /\ n >= 1 /\ n <= Len(peer_stream_rx) /\ n <= BufferSize
    /\ buffer_client' = BufferAfterRead(buffer_client, peer_stream_rx, n)
    /\ peer_stream_rx' = SubSeq(peer_stream_rx, n + 1, Len(peer_stream_rx))
    /\ read_client' = read_client \o SubSeq(peer_stream_rx, 1, n)
    /\ upstream_rx' = CancelledRead(upstream_rx)
    /\ bytes_read' = n
    /\ write_pos' = 0
    /\ last_read' = [side |-> "client", n |-> n, ok |-> TRUE]
    /\ tpc' = "write_upstream"
    /\ UNCHANGED <<client_sent, client_fin, upstream_sent, upstream_fin, buffer_upstream,
                   read_upstream, written_upstream, written_client, upstream_wr,
                   peer_stream_wr>>
    /\ RelayFrame

\* A plausible slip: after a 0-byte read the loop goes on, to drain the other
\* direction.
AfterEofContinue(shutdown_ok) == IF shutdown_ok THEN "select" ELSE "panicked"

\* Where the task is after a 0-byte read: shutdown().await.unwrap() panics on
\* Err, and `break` leaves the loop, which ends the task.
AfterEof(shutdown_ok) == IF shutdown_ok THEN "done" ELSE "panicked"

\* select!: the client branch wins with 0 bytes; upstream.shutdown().await
\* .unwrap(), break. The task ends and drops both streams.
ReadClientEof(shutdown_ok) ==
    /\ tpc = "select"
    /\ peer_stream_rx = <<>> /\ client_fin
    /\ upstream_rx' = CancelledRead(upstream_rx)
    /\ bytes_read' = 0
    /\ last_read' = [side |-> "client", n |-> 0, ok |-> TRUE]
    /\ upstream_wr' = IF shutdown_ok THEN "shutdown" ELSE "dropped"
    /\ peer_stream_wr' = "dropped"
    /\ tpc' = AfterEof(shutdown_ok)
    /\ UNCHANGED <<client_sent, client_fin, peer_stream_rx, upstream_sent, upstream_fin,
                   buffer_client, buffer_upstream, write_pos, read_client, read_upstream,
                   written_upstream, written_client>>
    /\ RelayFrame

\* select!: the client branch wins with Err; unwrap panics.
ReadClientError ==
    /\ tpc = "select"
    /\ upstream_rx' = CancelledRead(upstream_rx)
    /\ last_read' = [side |-> "client", n |-> 0, ok |-> FALSE]
    /\ upstream_wr' = "dropped"
    /\ peer_stream_wr' = "dropped"
    /\ tpc' = "panicked"
    /\ UNCHANGED <<client_sent, client_fin, peer_stream_rx, upstream_sent, upstream_fin,
                   buffer_client, buffer_upstream, bytes_read, write_pos, read_client,
                   read_upstream, written_upstream, written_client>>
    /\ RelayFrame

\* upstream.write_all(&buffer_client[..bytes_from_client]): one write of k
\* bytes of what is left of the slice.
WriteUpstream(k) ==
    /\ tpc = "write_upstream"
    /\ LET slice == Slice(buffer_client, bytes_read)
       IN  /\ k >= 1 /\ write_pos + k <= Len(slice)
           /\ written_upstream' =
                  written_upstream \o SubSeq(slice, write_pos + 1, write_pos + k)
           /\ write_pos' = write_pos + k
           /\ tpc' = IF WriteAllComplete(write_pos + k, Len(slice))
                     THEN "select" ELSE "write_upstream"
    /\ UNCHANGED <<client_sent, client_fin, peer_stream_rx, upstream_sent, upstream_fin,
                   upstream_rx, buffer_client, buffer_upstream, bytes_read, read_client,
                   read_upstream, written_client, upstream_wr, peer_stream_wr, last_read>>
    /\ RelayFrame

\* write_all returns Err; unwrap panics.
WriteUpstreamError ==
    /\ tpc = "write_upstream"
    /\ upstream_wr' = "dropped"
    /\ peer_stream_wr' = "dropped"
    /\ tpc' = "panicked"
    /\ UNCHANGED <<client_sent, client_fin, peer_stream_rx, upstream_sent, upstream_fin,
                   upstream_rx, buffer_client, buffer_upstream, bytes_read, write_pos,
                   read_client, read_upstream, written_upstream, written_client, last_read>>
    /\ RelayFrame

\* select!: the upstream branch wins with n > 0 bytes.
ReadUpstream(n) ==
    /\ tpc = "select"
    /\ n >= 1 /\ n <= Len(upstream_rx) /\ n <= BufferSize
    /\ buffer_upstream' = BufferAfterRead(buffer_upstream, upstream_rx, n)
    /\ upstream_rx' = SubSeq(upstream_rx, n + 1, Len(upstream_rx))
    /\ read_upstream' = read_upstream \o SubSeq(upstream_rx, 1, n)
    /\ peer_stream_rx' = CancelledRead(peer_stream_rx)
    /\ bytes_read' = n
    /\ write_pos' = 0
    /\ last_read' = [side |-> "upstream", n |-> n, ok |-> TRUE]
    /\ tpc' = "write_client"
    /\ UNCHANGED <<client_sent, client_fin, upstream_sent, upstream_fin, buffer_client,
                   read_client, written_upstream, written_client, upstream_wr,
                   peer_stream_wr>>
    /\ RelayFrame

\* select!: the upstream branch wins with 0 bytes; peer_stream.shutdown()
\* .await.unwrap(), break.
ReadUpstreamEof(shutdown_ok) ==
    /\ tpc = "select"
    /\ upstream_rx = <<>> /\ upstream_fin
    /\ peer_stream_rx' = CancelledRead(peer_stream_rx)
    /\ bytes_read' = 0
    /\ last_read' = [side |-> "upstream", n |-> 0, ok |-> TRUE]
    /\ peer_stream_wr' = IF shutdown_ok THEN "shutdown" ELSE "dropped"
    /\ upstream_wr' = "dropped"
    /\ tpc' = AfterEof(shutdown_ok)
    /\ UNCHANGED <<client_sent, client_fin, upstream_sent, upstream_fin, upstream_rx,
                   buffer_client, buffer_upstream, write_pos, read_client, read_upstream,
                   written_upstream, written_client>>
    /\ RelayFrame

\* select!: the upstream branch wins with Err; unwrap panics.
ReadUpstreamError ==
    /\ tpc = "select"
    /\ peer_stream_rx' = CancelledRead(peer_stream_rx)
    /\ last_read' = [side |-> "upstream", n |-> 0, ok |-> FALSE]
    /\ upstream_wr' = "dropped"
    /\ peer_stream_wr' = "dropped"
    /\ tpc' = "panicked"
    /\ UNCHANGED <<client_sent, client_fin, upstream_sent, upstream_fin, upstream_rx,
                   buffer_client, buffer_upstream, bytes_read, write_pos, read_client,
                   read_upstream, written_upstream, written_client>>
    /\ RelayFrame

\* peer_stream.write_all(&buffer_upstream[..bytes_from_upstream])
WriteClient(k) ==
    /\ tpc = "write_client"
    /\ LET slice == Slice(buffer_upstream, bytes_read)
       IN  /\ k >= 1 /\ write_pos + k <= Len(slice)
           /\ written_client' =
                  written_client \o SubSeq(slice, write_pos + 1, write_pos + k)
           /\ write_pos' = write_pos + k
           /\ tpc' = IF WriteAllComplete(write_pos + k, Len(slice))
                     THEN "select" ELSE "write_client"
    /\ UNCHANGED <<client_sent, client_fin, peer_stream_rx, upstream_sent, upstream_fin,
                   upstream_rx, buffer_client, buffer_upstream, bytes_read, read_client,
                   read_upstream, written_upstream, upstream_wr, peer_stream_wr, last_read>>
    /\ RelayFrame

\* write_all returns Err; unwrap panics.
WriteClientError ==
    /\ tpc = "write_client"
    /\ upstream_wr' = "dropped"
    /\ peer_stream_wr' = "dropped"
    /\ tpc' = "panicked"
    /\ UNCHANGED <<client_sent, client_fin, peer_stream_rx, upstream_sent, upstream_fin,
                   upstream_rx, buffer_client, buffer_upstream, bytes_read, write_pos,
                   read_client, read_upstream, written_upstream, written_client, last_read>>
    /\ RelayFrame

RelayNext ==
    \/ ClientSend
    \/ ClientShutdown
    \/ UpstreamSend
    \/ UpstreamShutdown
    \/ \E n \in 1..BufferSize : ReadClient(n)
    \/ \E ok \in BOOLEAN : ReadClientEof(ok)
    \/ ReadClientError
    \/ \E k \in 1..BufferSize : WriteUpstream(k)
    \/ WriteUpstreamError
    \/ \E n \in 1..BufferSize : ReadUpstream(n)
    \/ \E ok \in BOOLEAN : ReadUpstreamEof(ok)
    \/ ReadUpstreamError
    \/ \E k \in 1..BufferSize : WriteClient(k)
    \/ WriteClientError

(***************************************************************************)
(* http/service.rs: LoadBalancer::get_connection (SpecBalancer).           *)
(*                                                                         *)
(* backends is the length of the backends list; a backend is its index.    *)
(* current_connection_index is a field of the configuration (default 0).   *)
(***************************************************************************)
MaxBackends == 3      \* backends of a generated service
MaxSelections == 6    \* calls of get_connection

Algorithms == {"RoundRobin", "Random"}

BalancerIdle ==
    /\ backends = 0
    /\ current_connection_index = 0
    /\ algo = "RoundRobin"
    /\ initial_index = 0
    /\ selections = <<>>

BalancerInit ==
    /\ backends \in 0..MaxBackends
    /\ current_connection_index \in 0..MaxBackends
    /\ algo \in Algorithms
    /\ initial_index = current_connection_index
    /\ selections = <<>>

BalancerFrame ==
    UNCHANGED <<hostVars, matchVars, httpVars, prefixVars, acceptVars, relayVars, svcVars,
               streamVars, udpVars>>

\* A plausible slip: the cursor advances without wrapping around.
NextIndexNoWrap(index, len, connected) == index + 1

\* A plausible slip: the cursor advances only when the dial succeeded.
NextIndexIfConnected(index, len, connected) ==
    IF connected THEN (index + 1) % len ELSE index

\* self.current_connection_index = (self.current_connection_index + 1)
\*     % self.backends.len()
NextIndex(index, len, connected) == (index + 1) % len

\* LoadBalancer::get_connection; connected is what backend.get_connection()
\* (the dial) returns. A selection is the index handed to backends.get and the
\* Result returned.
GetConnection(connected) ==
    /\ Len(selections) < MaxSelections
    /\ IF current_connection_index >= backends
       THEN /\ selections' = Append(selections,
                    [index |-> current_connection_index, result |-> "BackendNotFound"])
            /\ UNCHANGED current_connection_index
       ELSE /\ selections' = Append(selections,
                    [index |-> current_connection_index,
                     result |-> IF connected THEN "Ok" ELSE "IoError"])
            /\ current_connection_index' =
                   NextIndex(current_connection_index, backends, connected)
    /\ UNCHANGED <<backends, algo, initial_index>>
    /\ BalancerFrame

BalancerNext == \E connected \in BOOLEAN : GetConnection(connected)

(***************************************************************************)
(* http/route.rs and http/service.rs: concurrent requests to one           *)
(* HttpService (SpecService).                                              *)
(*                                                                         *)
(* from_config wraps each service in one Arc<Mutex<HttpService>> and clones *)
(* the Arc into every rule that names the service, so requests matched by   *)
(* different rules meet on the same Mutex. HttpRule::send_request is        *)
(*     self.backend.lock().await.send_request(req).await                    *)
(* and the MutexGuard is a temporary of that statement: it is dropped when  *)
(* the statement ends, by return or by unwinding (a tokio Mutex is not      *)
(* poisoned by a panic). Each request is served in the task hyper spawned   *)
(* for its connection, so an unwrap that fails ends that task only.         *)
(***************************************************************************)
Callers == {"r1", "r2", "r3"}
Rules == {"rule1", "rule2"}     \* two rules naming the one service

NoSvcOutcome == [kind |-> "none", status |-> 0, failed |-> ""]
SvcPanicked(what) == [kind |-> "panic", status |-> 0, failed |-> what]
SvcResponded(status) == [kind |-> "response", status |-> status, failed |-> ""]

ServiceIdle ==
    /\ cpc = [c \in Callers |-> "idle"]
    /\ via = [c \in Callers |-> ""]
    /\ holder = ""
    /\ acquired = <<>>
    /\ picked = [c \in Callers |-> 0 - 1]
    /\ svc_outcome = [c \in Callers |-> NoSvcOutcome]

ServiceInit == ServiceIdle

ServiceFrame ==
    UNCHANGED <<hostVars, matchVars, httpVars, prefixVars, acceptVars, relayVars,
                streamVars, udpVars>>

\* A plausible slip: the cursor is not behind a lock at all.
CanAcquireAlways(h) == TRUE

\* Mutex::lock resolves only when no guard is alive.
CanAcquire(h) == h = ""

\* Dropping the guard c holds.
Released(h, c) == IF h = c THEN "" ELSE h

\* The positions at which a request waits on the network.
IoPositions == {"dial", "handshake", "await_response"}

\* proxy_request found rule for the request and calls rule.send_request:
\* the request starts waiting for the lock.
Arrive(c, rule) ==
    /\ cpc[c] = "idle"
    /\ cpc' = [cpc EXCEPT ![c] = "lock_wait"]
    /\ via' = [via EXCEPT ![c] = rule]
    /\ UNCHANGED <<holder, acquired, picked, svc_outcome, lbVars>>
    /\ ServiceFrame

\* self.backend.lock().await
Acquire(c) ==
    /\ cpc[c] = "lock_wait"
    /\ CanAcquire(holder)
    /\ holder' = c
    /\ acquired' = Append(acquired, c)
    /\ cpc' = [cpc EXCEPT ![c] = "select"]
    /\ UNCHANGED <<via, picked, svc_outcome, lbVars>>
    /\ ServiceFrame

\* get_connection up to the dial: backends.get(current_connection_index)
\* .ok_or(BackendNotFound)?, and send_request unwraps the Err.
Select(c) ==
    /\ cpc[c] = "select"
    /\ IF current_connection_index >= backends
       THEN /\ cpc' = [cpc EXCEPT ![c] = "panicked"]
            /\ svc_outcome' = [svc_outcome EXCEPT ![c] = SvcPanicked("backend_not_found")]
            /\ holder' = Released(holder, c)
            /\ UNCHANGED picked
       ELSE /\ cpc' = [cpc EXCEPT ![c] = "dial"]
            /\ picked' = [picked EXCEPT ![c] = current_connection_index]
            /\ UNCHANGED <<svc_outcome, holder>>
    /\ UNCHANGED <<via, acquired, lbVars>>
    /\ ServiceFrame

\* The dial returns, the cursor advances, and send_request unwraps the
\* Result: an Err of the dial panics in the request's task.
DialDone(c, ok) ==
    /\ cpc[c] = "dial"
    /\ current_connection_index' = NextIndex(current_connection_index, backends, ok)
    /\ IF ok
       THEN /\ cpc' = [cpc EXCEPT ![c] = "handshake"]
            /\ UNCHANGED <<svc_outcome, holder>>
       ELSE /\ cpc' = [cpc EXCEPT ![c] = "panicked"]
            /\ svc_outcome' = [svc_outcome EXCEPT ![c] = SvcPanicked("connect")]
            /\ holder' = Released(holder, c)
    /\ UNCHANGED <<via, acquired, picked, backends, algo, initial_index, selections>>
    /\ ServiceFrame

\* http1::Builder::new().handshake(io).await.unwrap()
Handshake(c, ok) ==
    /\ cpc[c] = "handshake"
    /\ IF ok
       THEN /\ cpc' = [cpc EXCEPT ![c] = "await_response"]
            /\ UNCHANGED <<svc_outcome, holder>>
       ELSE /\ cpc' = [cpc EXCEPT ![c] = "panicked"]
            /\ svc_outcome' = [svc_outcome EXCEPT ![c] = SvcPanicked("handshake")]
            /\ holder' = Released(holder, c)
    /\ UNCHANGED <<via, acquired, picked, lbVars>>
    /\ ServiceFrame

\* sender.send_request(req).await.unwrap(), then Ok(res.map(..)): the
\* statement of HttpRule::send_request ends and the guard is dropped.
Response(c, ok) ==
    /\ cpc[c] = "await_response"
    /\ IF ok
       THEN /\ cpc' = [cpc EXCEPT ![c] = "done"]
            /\ svc_outcome' = [svc_outcome EXCEPT ![c] = SvcResponded(StatusOk)]
       ELSE /\ cpc' = [cpc EXCEPT ![c] = "panicked"]
            /\ svc_outcome' = [svc_outcome EXCEPT ![c] = SvcPanicked("response")]
    /\ holder' = Released(holder, c)
    /\ UNCHANGED <<via, acquired, picked, lbVars>>
    /\ ServiceFrame

ServiceNext ==
    \E c \in Callers :
        \/ \E rule \in Rules : Arrive(c, rule)
        \/ Acquire(c)
        \/ Select(c)
        \/ \E ok \in BOOLEAN :
            \/ DialDone(c, ok)
            \/ Handshake(c, ok)
            \/ Response(c, ok)

(***************************************************************************)
(* service/mod.rs: TcpService::get_connection and UdpService::get_address  *)
(* (SpecStreamService).                                                    *)
(*                                                                         *)
(* A backend is its IpAddr's family: get_address formats "ip:port" and     *)
(* parses it as a SocketAddrV4, which fails on an IPv6 address.            *)
(***************************************************************************)
Families == {"v4", "v6"}

StreamServiceIdle ==
    /\ service_backends = <<>>
    /\ service_algo = "RoundRobin"
    /\ service_selections = <<>>

StreamServiceInit ==
    /\ service_backends \in SeqsUpTo(Families, MaxBackends)
    /\ service_algo \in Algorithms
    /\ service_selections = <<>>

StreamServiceFrame ==
    UNCHANGED <<hostVars, matchVars, httpVars, prefixVars, acceptVars, relayVars, lbVars,
                svcVars, udpVars>>

\* A selection: the function called, the index of config.backends it used
\* and what it returned.
Selection(fn, index, result) == [fn |-> fn, index |-> index, result |-> result]

\* self.config.backends[0]: the index used by both functions.
BackendIndex == 0

\* TcpService::get_connection: backends[0] (panics on an empty list), then
\* TcpStream::connect, whose Result is returned.
TcpGetConnection(connected) ==
    /\ Len(service_selections) < MaxSelections
    /\ service_selections' = Append(service_selections,
           IF BackendIndex >= Len(service_backends)
           THEN Selection("get_connection", BackendIndex, "panic")
           ELSE Selection("get_connection", BackendIndex,
                          IF connected THEN "Ok" ELSE "IoError"))
    /\ UNCHANGED <<service_backends, service_algo>>
    /\ StreamServiceFrame

\* UdpService::get_address: backends[0] (panics on an empty list), then
\* SocketAddrV4::from_str(..).unwrap().
UdpGetAddress ==
    /\ Len(service_selections) < MaxSelections
    /\ service_selections' = Append(service_selections,
           IF BackendIndex >= Len(service_backends)
           THEN Selection("get_address", BackendIndex, "panic")
           ELSE Selection("get_address", BackendIndex,
                          IF service_backends[BackendIndex + 1] = "v4"
                          THEN "Ok" ELSE "panic"))
    /\ UNCHANGED <<service_backends, service_algo>>
    /\ StreamServiceFrame

StreamServiceNext ==
    \/ \E connected \in BOOLEAN : TcpGetConnection(connected)
    \/ UdpGetAddress

(***************************************************************************)
(* stream/udp.rs: UdpServer::run (SpecUdp).                                *)
(*                                                                         *)
(* run has bound the server socket and spawned the reaper. Three kinds of  *)
(* task run: the ingress loop (inside the future of run, which main polls  *)
(* through join_all: a panic there takes the process down, an Err returned *)
(* by `?` ends the loop only), the reaper, and one serving task per        *)
(* connection that serve_bidirectional spawned.                            *)
(*                                                                         *)
(* Time is counted in seconds, the period of the reaper's interval; the    *)
(* first tick of a tokio interval completes at once. The clock advances    *)
(* only when the reaper has served the tick of the current second: this is *)
(* the fair scheduling of the reaper that the timing statements assume.    *)
(* The ingress loop holds the client_map lock from its lock().await to the *)
(* end of the iteration, the reaper for a whole scan. The last_activity    *)
(* lock is held for one assignment or one comparison and is not modelled.  *)
(* Sockets are numbered: 0 is the server socket, s > 0 the ephemeral       *)
(* socket of connection s.                                                 *)
(***************************************************************************)
MaxTime == 2       \* seconds observed
Ttl == 1           \* biderectional_connection_ttl, in seconds
MaxSockets == 2    \* ephemeral sockets bound in one run

UdpClients == {"k1", "k2"}
UpstreamAddress == "u"                 \* what service.get_address() returns
Peers == {UpstreamAddress, "x"}        \* sources of datagrams on an ephemeral socket
SocketIds == 1..MaxSockets
ServerSocket == 0
IngressLoop == 0                       \* the ingress loop as a sender
Senders == {IngressLoop} \cup SocketIds

NoConnection ==
    [client |-> "", upstream_address |-> "", last_activity |-> 0,
     close_tx |-> "None", is_serving |-> FALSE]
NoSend == [via |-> 0 - 1, to |-> ""]
SendTo(socket, addr) == [via |-> socket, to |-> addr]
ReaperAsleep(tick) == [pc |-> "sleep", last_tick |-> tick, todo |-> {}, addr |-> ""]

UdpIdle ==
    /\ now = 0
    /\ udp_run = "running"
    /\ pending = ""
    /\ client_map = [c \in UdpClients |-> 0]
    /\ table_lock = ""
    /\ sockets = 0
    /\ connections = [s \in SocketIds |-> NoConnection]
    /\ task = [s \in SocketIds |-> "unspawned"]
    /\ close_rx = [s \in SocketIds |-> "open"]
    /\ peer_addr = [s \in SocketIds |-> ""]
    /\ reaper = ReaperAsleep(0 - 1)
    /\ sending = [s \in Senders |-> NoSend]
    /\ activity_at = [s \in SocketIds |-> 0]

UdpInit == UdpIdle

UdpFrame ==
    UNCHANGED <<hostVars, matchVars, httpVars, prefixVars, acceptVars, relayVars, lbVars,
                svcVars, streamVars>>

\* The process is alive: no panic has unwound through run.
Alive == udp_run # "aborted"

\* A plausible slip: an entry outlives its ttl by one more second.
IsStaleLate(last_activity, t, ttl) == t - last_activity > ttl + 1

\* is_stale: self.last_activity.lock().await.elapsed() > self.time_to_live
IsStale(last_activity, t, ttl) == t - last_activity > ttl

\* A plausible slip: every datagram takes the Vacant arm.
EntryVacantAlways(map, c) == TRUE

\* client_map.entry(peer_addr) is Entry::Vacant
EntryVacant(map, c) == map[c] = 0

\* A plausible slip: the reaper closes the connection and leaves its entry.
MapAfterRemoveKeeps(map, c) == map

\* client_map.remove(&addr)
MapAfterRemove(map, c) == [map EXCEPT ![c] = 0]

\* A plausible slip: the serving task forwards whatever reaches its socket.
FromUpstreamAlways(peer, upstream) == TRUE

\* the negation of `peer_addr != upstream_address`
FromUpstream(peer, upstream) == peer = upstream

\* A plausible slip: close drops the sender without sending.
CloseSignalKept(close_tx, rx) == rx

\* close: if let Some(close_tx) = self.close_tx.take() { close_tx.send(()) }
CloseSignal(close_tx, rx) == IF close_tx = "Some" THEN "sent" ELSE rx

\* One second passes.
AdvanceTime ==
    /\ Alive
    /\ now < MaxTime
    /\ reaper.pc = "sleep" /\ reaper.last_tick = now
    /\ now' = now + 1
    /\ UNCHANGED <<udp_run, pending, client_map, table_lock, sockets, connections, task,
                   close_rx, peer_addr, reaper, sending, activity_at>>
    /\ UdpFrame

\* server_socket.recv_from returns a datagram of client c. (A datagram that
\* would need one socket more than the model binds is not generated.)
IngressRecv(c) ==
    /\ udp_run = "running"
    /\ pending = ""
    /\ client_map[c] # 0 \/ sockets < MaxSockets
    /\ pending' = c
    /\ UNCHANGED <<now, udp_run, client_map, table_lock, sockets, connections, task,
                   close_rx, peer_addr, reaper, sending, activity_at>>
    /\ UdpFrame

\* server_socket.recv_from returns Err: `?` returns from run. The reaper and
\* the serving tasks live on.
IngressRecvError ==
    /\ udp_run = "running"
    /\ pending = ""
    /\ udp_run' = "returned"
    /\ UNCHANGED <<now, pending, client_map, table_lock, sockets, connections, task,
                   close_rx, peer_addr, reaper, sending, activity_at>>
    /\ UdpFrame

\* UdpConnectionBuilder::build for client c on the newly bound socket s.
BuildConnection(c, s) ==
    [client |-> c, upstream_address |-> UpstreamAddress, last_activity |-> now,
     close_tx |-> "None", is_serving |-> FALSE]

\* A plausible slip: the datagram is sent to the connection's other address.
RelayAddressOfClient(connection) == connection.client

\* relay_client_message: send_to(&message, self.upstream_address), the address
\* stored in the connection.
RelayAddress(connection) == connection.upstream_address

\* One iteration of the ingress loop from client_map.lock().await up to the
\* send_to inside relay_client_message: the lock is taken, the entry is
\* looked up, in the Vacant arm the connection is built (bound tells whether
\* its bind succeeds: the Err is unwrapped, and the panic unwinds through run
\* and ends the process), last_activity is set and the send to the upstream
\* on the connection's socket starts.
IngressRelay(bound) ==
    /\ udp_run = "running"
    /\ pending # ""
    /\ table_lock = ""
    /\ IF EntryVacant(client_map, pending)
       THEN /\ sockets < MaxSockets
            /\ IF bound
               THEN LET s == sockets + 1
                    IN  /\ sockets' = s
                        /\ connections' =
                               [connections EXCEPT ![s] = BuildConnection(pending, s)]
                        /\ activity_at' = [activity_at EXCEPT ![s] = now]
                        /\ sending' =
                               [sending EXCEPT ![IngressLoop] =
                                    SendTo(s, RelayAddress(BuildConnection(pending, s)))]
                        /\ table_lock' = "ingress"
                        /\ UNCHANGED udp_run
               ELSE /\ udp_run' = "aborted"
                    /\ UNCHANGED <<sockets, connections, activity_at, sending, table_lock>>
       ELSE /\ bound
            /\ LET s == client_map[pending]
               IN  /\ connections' = [connections EXCEPT ![s].last_activity = now]
                   /\ activity_at' = [activity_at EXCEPT ![s] = now]
                   /\ sending' = [sending EXCEPT ![IngressLoop] =
                                      SendTo(s, RelayAddress(connections[s]))]
            /\ table_lock' = "ingress"
            /\ UNCHANGED <<sockets, udp_run>>
    /\ UNCHANGED <<now, pending, client_map, task, close_rx, peer_addr, reaper>>
    /\ UdpFrame

\* The send_to of relay_client_message returns (an Err is unwrapped: panic).
\* In the Vacant arm serve_bidirectional then spawns the serving task and the
\* connection is inserted; the iteration ends and the guard is dropped.
IngressSent(ok) ==
    /\ udp_run = "running"
    /\ table_lock = "ingress"
    /\ IF ok
       THEN LET s == sending[IngressLoop].via
            IN  /\ IF client_map[pending] # s
                   THEN /\ connections' = [connections EXCEPT
                               ![s].close_tx = "Some", ![s].is_serving = TRUE]
                        /\ task' = [task EXCEPT ![s] = "select"]
                        /\ client_map' = [client_map EXCEPT ![pending] = s]
                   ELSE UNCHANGED <<connections, task, client_map>>
                /\ sending' = [sending EXCEPT ![IngressLoop] = NoSend]
                /\ pending' = ""
                /\ table_lock' = ""
                /\ UNCHANGED udp_run
       ELSE /\ udp_run' = "aborted"
            /\ UNCHANGED <<connections, task, client_map, sending, pending, table_lock>>
    /\ UNCHANGED <<now, sockets, close_rx, peer_addr, reaper, activity_at>>
    /\ UdpFrame

\* sec.tick().await completes, the reaper locks the table and collects its
\* keys.
ReaperTick ==
    /\ Alive
    /\ reaper.pc = "sleep"
    /\ reaper.last_tick < now
    /\ table_lock = ""
    /\ table_lock' = "reaper"
    /\ reaper' = [pc |-> "scan", last_tick |-> now,
                  todo |-> {c \in UdpClients : client_map[c] # 0}, addr |-> ""]
    /\ UNCHANGED <<now, udp_run, pending, client_map, sockets, connections, task, close_rx,
                   peer_addr, sending, activity_at>>
    /\ UdpFrame

\* client_map.get(&addr).unwrap().is_stale().await for one of the keys (a
\* HashMap yields them in any order).
ReaperCheck(c) ==
    /\ Alive
    /\ reaper.pc = "scan"
    /\ c \in reaper.todo
    /\ reaper' = IF IsStale(connections[client_map[c]].last_activity, now, Ttl)
                 THEN [reaper EXCEPT !.pc = "remove", !.addr = c]
                 ELSE [reaper EXCEPT !.todo = reaper.todo \ {c}]
    /\ UNCHANGED <<now, udp_run, pending, client_map, table_lock, sockets, connections,
                   task, close_rx, peer_addr, sending, activity_at>>
    /\ UdpFrame

\* client_map.remove(&addr) and connection.close() for the address found
\* stale.
ReaperRemove ==
    /\ Alive
    /\ reaper.pc = "remove"
    /\ LET c == reaper.addr
           s == client_map[c]
       IN  /\ client_map' = MapAfterRemove(client_map, c)
           /\ close_rx' = [close_rx EXCEPT ![s] = CloseSignal(connections[s].close_tx, @)]
           /\ connections' = [connections EXCEPT ![s].close_tx = "None"]
           /\ reaper' = [reaper EXCEPT !.pc = "scan", !.todo = reaper.todo \ {c}, !.addr = ""]
    /\ UNCHANGED <<now, udp_run, pending, table_lock, sockets, task, peer_addr, sending,
                   activity_at>>
    /\ UdpFrame

\* A plausible slip: the reaper's guard is bound outside its loop and is still
\* held while the reaper awaits the next tick.
ReaperGuardKept(owner) == owner

\* The guard `client_map` of the reaper's loop body goes out of scope at the
\* end of the iteration: the table mutex is free.
ReaperGuardDropped(owner) == ""

\* The for loop is over: the guard of the table is dropped and the reaper
\* awaits the next tick.
ReaperEndScan ==
    /\ Alive
    /\ reaper.pc = "scan"
    /\ reaper.todo = {}
    /\ reaper' = ReaperAsleep(reaper.last_tick)
    /\ table_lock' = ReaperGuardDropped(table_lock)
    /\ UNCHANGED <<now, udp_run, pending, client_map, sockets, connections, task, close_rx,
                   peer_addr, sending, activity_at>>
    /\ UdpFrame

\* The recv_from branch of the serving task's select wins with a datagram
\* from peer: a datagram of another address is skipped (continue); for one of
\* the upstream last_activity is set and the send to the client on the server
\* socket starts.
TaskRecv(s, peer) ==
    /\ Alive
    /\ task[s] = "select"
    /\ IF FromUpstream(peer, connections[s].upstream_address)
       THEN /\ connections' = [connections EXCEPT ![s].last_activity = now]
            /\ peer_addr' = [peer_addr EXCEPT ![s] = peer]
            /\ sending' = [sending EXCEPT ![s] = SendTo(ServerSocket, connections[s].client)]
            /\ task' = [task EXCEPT ![s] = "send"]
       ELSE UNCHANGED <<connections, peer_addr, sending, task>>
    /\ activity_at' = IF peer = connections[s].upstream_address
                      THEN [activity_at EXCEPT ![s] = now]
                      ELSE activity_at
    /\ UNCHANGED <<now, udp_run, pending, client_map, table_lock, sockets, close_rx, reaper>>
    /\ UdpFrame

\* server.send_to(&buffer[..bytes_read], client).await.unwrap(): the
\* iteration ends, or the task panics.
TaskSend(s, ok) ==
    /\ Alive
    /\ task[s] = "send"
    /\ task' = [task EXCEPT ![s] = IF ok THEN "select" ELSE "panicked"]
    /\ peer_addr' = [peer_addr EXCEPT ![s] = ""]
    /\ sending' = [sending EXCEPT ![s] = NoSend]
    /\ UNCHANGED <<now, udp_run, pending, client_map, table_lock, sockets, connections,
                   close_rx, reaper, activity_at>>
    /\ UdpFrame

\* recv_from on the ephemeral socket returns Err: break.
TaskRecvError(s) ==
    /\ Alive
    /\ task[s] = "select"
    /\ task' = [task EXCEPT ![s] = "ended"]
    /\ UNCHANGED <<now, udp_run, pending, client_map, table_lock, sockets, connections,
                   close_rx, peer_addr, reaper, sending, activity_at>>
    /\ UdpFrame

\* The close_rx branch of the select wins: break.
TaskClose(s) ==
    /\ Alive
    /\ task[s] = "select"
    /\ close_rx[s] = "sent"
    /\ task' = [task EXCEPT ![s] = "closed"]
    /\ UNCHANGED <<now, udp_run, pending, client_map, table_lock, sockets, connections,
                   close_rx, peer_addr, reaper, sending, activity_at>>
    /\ UdpFrame

UdpNext ==
    \/ AdvanceTime
    \/ \E c \in UdpClients : IngressRecv(c)
    \/ IngressRecvError
    \/ \E bound \in BOOLEAN : IngressRelay(bound)
    \/ \E ok \in BOOLEAN : IngressSent(ok)
    \/ ReaperTick
    \/ \E c \in UdpClients : ReaperCheck(c)
    \/ ReaperRemove
    \/ ReaperEndScan
    \/ \E s \in SocketIds :
        \/ \E peer \in Peers : TaskRecv(s, peer)
        \/ \E ok \in BOOLEAN : TaskSend(s, ok)
        \/ TaskRecvError(s)
        \/ TaskClose(s)

(***************************************************************************)
(* The specifications.                                                     *)
(***************************************************************************)
LaterIdle == ServiceIdle /\ StreamServiceIdle /\ UdpIdle
OtherIdle == PrefixIdle /\ TcpIdle /\ RelayIdle /\ BalancerIdle /\ LaterIdle

Init == HostIdle /\ MatchIdle /\ HttpInit /\ OtherIdle
Next == HttpNext
Spec == Init /\ [][Next]_vars

InitHost == HostInit /\ MatchIdle /\ HttpIdle /\ OtherIdle
SpecHost == InitHost /\ [][HostNext]_vars

InitMatcher == HostIdle /\ MatchInit /\ HttpIdle /\ OtherIdle
SpecMatcher == InitMatcher /\ [][MatchNext]_vars

FirstIdle == HostIdle /\ MatchIdle /\ HttpIdle

InitPrefix == FirstIdle /\ PrefixInit /\ TcpIdle /\ RelayIdle /\ BalancerIdle /\ LaterIdle
SpecPrefix == InitPrefix /\ [][PrefixNext]_vars

InitTcp == FirstIdle /\ PrefixIdle /\ TcpInit /\ RelayIdle /\ BalancerIdle /\ LaterIdle
SpecTcp == InitTcp /\ [][TcpNext]_vars

InitRelay == FirstIdle /\ PrefixIdle /\ TcpIdle /\ RelayInit /\ BalancerIdle /\ LaterIdle
SpecRelay == InitRelay /\ [][RelayNext]_vars

InitBalancer == FirstIdle /\ PrefixIdle /\ TcpIdle /\ RelayIdle /\ BalancerInit /\ LaterIdle
SpecBalancer == InitBalancer /\ [][BalancerNext]_vars

InitService ==
    /\ FirstIdle /\ PrefixIdle /\ TcpIdle /\ RelayIdle /\ BalancerInit /\ ServiceInit
    /\ StreamServiceIdle /\ UdpIdle
SpecService == InitService /\ [][ServiceNext]_vars

InitStreamService ==
    /\ FirstIdle /\ PrefixIdle /\ TcpIdle /\ RelayIdle /\ BalancerIdle /\ ServiceIdle
    /\ StreamServiceInit /\ UdpIdle
SpecStreamService == InitStreamService /\ [][StreamServiceNext]_vars

InitUdp ==
    /\ FirstIdle /\ PrefixIdle /\ TcpIdle /\ RelayIdle /\ BalancerIdle /\ ServiceIdle
    /\ StreamServiceIdle /\ UdpInit
SpecUdp == InitUdp /\ [][UdpNext]_vars

\* The serving task's select polls its ready branches in random order, so a
\* close signal that is ready whenever the task is back at the select is
\* eventually taken; a send_to in progress completes.
UdpFairness ==
    \A s \in SocketIds :
        /\ SF_vars(TaskClose(s))
        /\ WF_vars(\E ok \in BOOLEAN : TaskSend(s, ok))
SpecUdpLive == InitUdp /\ [][UdpNext]_vars /\ UdpFairness

\* The table is a tokio Mutex, which grants the lock in the order of the
\* requests: a task that asks for it gets it once the holders before it have
\* let go (strong fairness of the two acquisitions). A task that holds it is
\* scheduled: the send_to or bind it awaits completes, and the reaper's scan,
\* which awaits nothing but the last_activity mutexes (never held across an
\* await), goes on.
LockFairness ==
    /\ SF_vars(ReaperTick)
    /\ SF_vars(\E bound \in BOOLEAN : IngressRelay(bound))
    /\ WF_vars(\E ok \in BOOLEAN : IngressSent(ok))
    /\ WF_vars(\E c \in UdpClients : ReaperCheck(c))
    /\ WF_vars(ReaperRemove)
    /\ WF_vars(ReaperEndScan)
SpecUdpFair == InitUdp /\ [][UdpNext]_vars /\ UdpFairness /\ LockFairness

(***************************************************************************)
(* Properties.                                                             *)
(***************************************************************************)
Min(S) == CHOOSE x \in S : \A y \in S : x <= y

Handled == phase = "serving" /\ outcome # NoOutcome
ServedRoutes == routes[outcome.server]

HostHeaderOf(r) == HeaderGet(r.headers, Name_host)
HostParses(r) == HostHeaderOf(r) # None /\ HostnameFromStr(HostHeaderOf(r)[1]).ok
HostnameOf(r) == HostnameFromStr(HostHeaderOf(r)[1]).val

\* The routes of rs that hold a HostSpec matching hostname h.
RouteHits(rs, h) ==
    {i \in 1..Len(rs) : \E k \in 1..Len(rs[i].hostnames) : HostSpecMatches(rs[i].hostnames[k], h)}

\* The rules of a route that match request r.
RuleHits(rules, r) == {i \in 1..Len(rules) : HttpRuleMatches(rules[i].matchers, r)}

\* C1: route selection is first-match-wins in registration order: for a
\* request whose Host parses, proxy_request selects the lowest-index route
\* holding a HostSpec that matches the Hostname, whatever later routes match
\* (and selects none when no route holds one).
C1_FirstMatchingRoute ==
    (Handled /\ HostParses(req)) =>
        LET hits == RouteHits(ServedRoutes, HostnameOf(req))
        IN  /\ outcome.kind # "panic"
            /\ outcome.route = (IF hits = {} THEN 0 ELSE Min(hits))

\* C1 witness: two routes both match the Host (a.e.c against [a.e.c] and
\* [*.e.c]) and the first was selected.
C1_Witness ==
    /\ Handled /\ HostParses(req)
    /\ RouteHits(ServedRoutes, HostnameOf(req)) = {1, 2}
    /\ ServedRoutes[1].hostnames # ServedRoutes[2].hostnames
    /\ outcome.route = 1

\* C2: a route whose hostnames list is empty matches every request Host: a
\* table of one route with hostnames = [] selects that route for every
\* parsable Hostname.
C2_EmptyHostnamesMatchAny ==
    (/\ Handled /\ HostParses(req)
     /\ Len(ServedRoutes) = 1
     /\ ServedRoutes[1].hostnames = <<>>) => outcome.route = 1

\* C3: when no route matches the request's Host, proxy_request responds with
\* status 404 and forwards the request to no backend. (Stated for tables whose
\* routes all list hostnames, so that it does not rest on what an empty list
\* matches.)
C3_NoRouteIs404 ==
    (/\ Handled /\ HostParses(req)
     /\ \A i \in 1..Len(ServedRoutes) : ServedRoutes[i].hostnames # <<>>
     /\ RouteHits(ServedRoutes, HostnameOf(req)) = {}) =>
        /\ outcome.kind = "response"
        /\ outcome.status = StatusNotFound
        /\ outcome.backend = ""

\* C4: when a route matches the Host but none of its rules matches the
\* request, proxy_request responds 404 and forwards to no backend; when some
\* rule matches, the lowest-index matching rule's backend receives the request.
C4_FirstMatchingRuleOr404 ==
    (Handled /\ HostParses(req) /\ RouteHits(ServedRoutes, HostnameOf(req)) # {}) =>
        LET rules == ServedRoutes[Min(RouteHits(ServedRoutes, HostnameOf(req)))].rules
            hits == RuleHits(rules, req)
        IN  IF hits = {}
            THEN /\ outcome.kind = "response"
                 /\ outcome.status = StatusNotFound
                 /\ outcome.backend = ""
            ELSE /\ outcome.kind = "forwarded"
                 /\ outcome.rule = Min(hits)
                 /\ outcome.backend = rules[Min(hits)].backend

\* C4 witness: a route with two rules matched the Host, both rules match the
\* request (GET /x against path /x and method GET, with different backends) and
\* the first rule's backend received it.
C4_Witness ==
    /\ Handled /\ HostParses(req)
    /\ outcome.kind = "forwarded"
    /\ outcome.rule = 1
    /\ LET rules == ServedRoutes[outcome.route].rules
       IN  /\ RuleHits(rules, req) = {1, 2}
           /\ rules[1].backend # rules[2].backend
           /\ outcome.backend = rules[1].backend

\* C5: a request with a missing Host header, or a Host value that does not
\* parse as a Hostname (empty, IP address, wildcard, invalid label), yields a
\* 400 response as a value; the handler does not panic and no backend is
\* contacted.
C5_BadHostIs400 ==
    (Handled /\ ~HostParses(req)) =>
        /\ outcome.kind = "response"
        /\ outcome.status = 400
        /\ outcome.backend = ""

\* C6: matchers within one rule are combined by OR: a rule with a non-empty
\* matchers list matches a request iff at least one of its matchers matches.
C6_RuleIsOrOfMatchers ==
    (mpc = "rule" /\ Len(ruleIn) > 0) =>
        (ruleOut <=> \E i \in 1..Len(ruleIn) : matcherOut[i])

FirstOfName(hs) ==
    {k \in 1..Len(hs) : \A j \in 1..(k - 1) : LowerName(hs[j].name) # LowerName(hs[k].name)}

\* C8: when a matcher's headers list holds several entries with the same
\* (case-insensitive) header name, only the first such entry decides the
\* match: later entries with that name are ignored, so a request satisfying
\* the first entry but not a later duplicate still matches.
C8_FirstDuplicateHeaderDecides ==
    (mpc \in {"matchers", "rule"}) =>
        \A i \in 1..Len(ruleIn) :
            LET m == ruleIn[i]
            IN  (m.headers # None) =>
                    (matcherOut[i] <=>
                        /\ (m.path = None \/ PathMatchMatches(m.path[1], reqIn.path))
                        /\ (m.method = None \/ m.method[1] = reqIn.method)
                        /\ \A k \in FirstOfName(m.headers[1]) :
                                HeaderMatchMatches(m.headers[1][k], reqIn.headers))

\* C9: for a parsed HostSpec s (m stored labels) and Hostname h (n labels):
\* if s is not a wildcard, s.matches(h) iff n = m and all labels are pairwise
\* equal; if s is a wildcard, s.matches(h) iff n = m + 1 and the first m
\* labels (TLD-first) are pairwise equal.
C9_HostSpecMatch ==
    (hpc = "matched") =>
        LET s == specRes.val
            h == nameRes.val
            m == Len(s.labels)
            n == Len(h.labels)
        IN  matched <=>
                IF s.wildcard
                THEN n = m + 1 /\ \A i \in 1..m : s.labels[i] = h.labels[i]
                ELSE n = m /\ \A i \in 1..m : s.labels[i] = h.labels[i]

\* C9 witness: a wildcard spec with a concrete label matched a hostname with
\* exactly one more label (*.a against b.a).
C9_Witness ==
    /\ hpc = "matched"
    /\ specRes.val.wildcard
    /\ Len(specRes.val.labels) >= 1
    /\ Len(nameRes.val.labels) = Len(specRes.val.labels) + 1
    /\ matched

\* C10: HostSpec round-trip: for every string that parses to a HostSpec s
\* (wildcard or not), parsing the serialized form of s succeeds and yields a
\* HostSpec that matches exactly the same Hostnames as s.
C10_HostSpecRoundTrip ==
    (hpc = "reparsed") =>
        /\ reparsed.ok
        /\ nameRes.ok =>
              (HostSpecMatches(reparsed.val, nameRes.val)
                 <=> HostSpecMatches(specRes.val, nameRes.val))

\* C11: every HostSpec returned by a successful parse has a non-empty label
\* list, and if its wildcard flag is set it has at least one concrete label;
\* in particular the input consisting of the single label * is not accepted.
C11_ParsedHostSpecHasLabel ==
    /\ specRes.ok =>
          /\ Len(specRes.val.labels) >= 1
          /\ (specRes.val.wildcard => Len(specRes.val.labels) >= 1)
    /\ (hpc # "input" /\ hostIn = <<"*">>) => ~specRes.ok

PrefixParsed == ppc \in {"parsed", "both_parsed", "matched", "extended"}
PrefixBothParsed == ppc \in {"both_parsed", "matched", "extended"}
PrefixWasMatched == ppc \in {"matched", "extended"}

HasAdjacentSlashes(string) ==
    \E i \in 1..(Len(string) - 1) : string[i] = "/" /\ string[i + 1] = "/"

\* C12: PathPrefix parse returns an error for every input that contains two
\* adjacent / characters, at whatever position the pair occurs (/abc//, //,
\* and also /a/b//c); the error is ConsecutiveSlashes when the input begins
\* with /.
C12_ConsecutiveSlashesRejected ==
    (PrefixParsed /\ HasAdjacentSlashes(prefixIn)) =>
        /\ ~prefixRes.ok
        /\ (prefixIn[1] = "/" => prefixRes.err = "ConsecutiveSlashes")

\* C13: PathPrefix parse accepts only inputs that begin with /: the empty
\* string is rejected with Empty, a non-empty string whose first character is
\* not / is rejected with NoSlashPrefix, and no successfully parsed prefix has
\* zero segments.
C13_OnlyLeadingSlashParses ==
    PrefixParsed =>
        /\ (prefixIn = <<>> => (~prefixRes.ok /\ prefixRes.err = "Empty"))
        /\ ((prefixIn # <<>> /\ prefixIn[1] # "/") =>
                (~prefixRes.ok /\ prefixRes.err = "NoSlashPrefix"))
        /\ (prefixRes.ok => Len(prefixRes.val) >= 1)

\* C14: PathPrefix matching is segment-wise: prefix.matches(path) iff path
\* split on / has at least as many segments as the prefix and equals the
\* prefix segment by segment over the prefix's length. For the prefix /ab:
\* /ab, /ab/ and /ab/a match; /aba and /a do not.
C14_SegmentWiseMatch ==
    PrefixWasMatched =>
        LET prefix == prefixRes.val
            segments == Split(pathIn, "/")
        IN  /\ prefixMatched <=>
                  /\ Len(segments) >= Len(prefix)
                  /\ \A i \in 1..Len(prefix) : segments[i] = prefix[i]
            /\ prefixIn = Str_ab =>
                  /\ pathIn \in {Str_ab, Str_ab_slash, Str_ab_a} => prefixMatched
                  /\ pathIn \in {Str_aba, Str_a} => ~prefixMatched

\* C14 witness: the prefix /ab was matched against /aba (longer as a string,
\* different as a segment) and did not match.
C14_Witness ==
    /\ ppc = "matched"
    /\ prefixIn = Str_ab
    /\ pathIn = Str_aba
    /\ ~prefixMatched

\* C15: PathPrefix matching is closed under path extension: for every parsed
\* prefix p and request path s, if p.matches(s) then p.matches(s + r) for
\* every non-empty r that begins with /.
C15_ClosedUnderExtension ==
    (ppc = "extended" /\ restIn # <<>> /\ restIn[1] = "/" /\ prefixMatched) => extMatched

\* C15 witness: a prefix of two segments or more matched a path with as many
\* segments, and matched the path extended with /a.
C15_Witness ==
    /\ ppc = "extended"
    /\ Len(prefixRes.val) >= 2
    /\ Len(Split(pathIn, "/")) = Len(prefixRes.val)
    /\ restIn = Str_a
    /\ prefixMatched
    /\ extMatched

\* C16: a trailing slash in a prefix definition is ignored: for every string
\* p that parses as a PathPrefix and does not end in /, p + "/" also parses
\* and the two prefixes match exactly the same set of request paths.
C16_TrailingSlashIgnored ==
    (/\ PrefixBothParsed
     /\ prefixRes.ok
     /\ (prefixIn = <<>> \/ prefixIn[Len(prefixIn)] # "/")) =>
        /\ slashRes.ok
        /\ PrefixWasMatched => (slashMatched <=> prefixMatched)

IsPrefixOf(p, q) == Len(p) <= Len(q) /\ SubSeq(q, 1, Len(p)) = p

ClientStream == [i \in 1..client_sent |-> ClientByte(i)]
UpstreamStream == [i \in 1..upstream_sent |-> UpstreamByte(i)]

\* C17: the TCP relay is byte-exact and ordered per direction: in every
\* reachable state of a pair, the bytes written to the upstream are a prefix
\* of the bytes read from the client, and the bytes written to the client a
\* prefix of the bytes read from the upstream; what was read from a side,
\* followed by what that side's stream still holds, is what the side sent
\* (the read that loses the select race consumes nothing).
C17_RelayByteExact ==
    /\ IsPrefixOf(written_upstream, read_client)
    /\ IsPrefixOf(written_client, read_upstream)
    /\ read_client \o peer_stream_rx = ClientStream
    /\ read_upstream \o upstream_rx = UpstreamStream

\* C17 witness: every byte of both sides was relayed, and the client's bytes
\* took more than one read (they do not fit the buffer).
C17_Witness ==
    /\ tpc = "select"
    /\ client_sent = MaxBytes /\ upstream_sent = MaxBytes
    /\ written_upstream = ClientStream
    /\ written_client = UpstreamStream
    /\ MaxBytes > BufferSize

\* C18: in the per-pair task, a read of 0 bytes from the client causes the
\* upstream write side to be shut down and the task to terminate; a read of 0
\* bytes from the upstream causes the client write side to be shut down and
\* the task to terminate; a read of more than 0 bytes is followed by a full
\* write of exactly that slice to the other side before the next read is
\* issued.
C18_EofShutsDownAndFullWrite ==
    /\ (last_read.ok /\ last_read.n = 0 /\ last_read.side = "client") =>
          (upstream_wr # "open" /\ tpc \in {"done", "panicked"})
    /\ (last_read.ok /\ last_read.n = 0 /\ last_read.side = "upstream") =>
          (peer_stream_wr # "open" /\ tpc \in {"done", "panicked"})
    /\ tpc = "select" =>
          (written_upstream = read_client /\ written_client = read_upstream)
    /\ tpc = "write_upstream" =>
          /\ written_client = read_upstream
          /\ read_client =
                written_upstream \o SubSeq(buffer_client, write_pos + 1, last_read.n)
    /\ tpc = "write_client" =>
          /\ written_upstream = read_client
          /\ read_upstream =
                written_client \o SubSeq(buffer_upstream, write_pos + 1, last_read.n)

\* C18 witness: the client's bytes were relayed in full, then the client
\* closed; the 0-byte read shut the upstream's write side and ended the task.
C18_Witness ==
    /\ tpc = "done"
    /\ last_read = [side |-> "client", n |-> 0, ok |-> TRUE]
    /\ upstream_wr = "shutdown"
    /\ Len(written_upstream) = MaxBytes

\* C19: a failed upstream dial for one accepted client affects only that
\* client: the client's connection is closed and the accept loop of
\* TcpServer::run keeps running (it has not returned).
C19_DialFailureIsLocal ==
    \A c \in dial_failed :
        /\ conn[c] = "closed"
        /\ listener # "returned"

Selected(b) == {i \in 1..Len(selections) : selections[i].index = b}

\* C20: round-robin fairness: starting from cursor 0 with n >= 1 backends, k
\* successive selections choose the backends 0, 1, ..., n-1, 0, ...: each
\* backend is chosen floor(k/n) or ceil(k/n) times and the choices have
\* period n.
C20_RoundRobinFair ==
    (initial_index = 0 /\ backends >= 1) =>
        LET n == backends
            k == Len(selections)
        IN  /\ \A i \in 1..k :
                  /\ selections[i].result # "BackendNotFound"
                  /\ selections[i].index = (i - 1) % n
            /\ \A b \in 0..(n - 1) :
                  Cardinality(Selected(b)) \in {k \div n, (k + n - 1) \div n}
            /\ \A i \in 1..(k - n) : selections[i + n].index = selections[i].index

\* C20 witness: two backends or more, each selected twice or more, with a
\* failed dial among the selections.
C20_Witness ==
    /\ initial_index = 0
    /\ backends >= 2
    /\ Len(selections) >= 2 * backends
    /\ \E i \in 1..Len(selections) : selections[i].result = "IoError"

\* C23: when a service's load-balancing algorithm is Random, a backend
\* selection leaves the cursor unchanged (the cursor is mutated only under the
\* round-robin policy).
C23_RandomLeavesCursor ==
    (algo = "Random") => current_connection_index = initial_index

\* The index handed out to the i-th request that acquired the lock.
PickOf(i) == picked[acquired[i]]

\* C21: under any interleaving of concurrent requests to one HttpService
\* (also when they arrive by different rules sharing it), taken in
\* lock-acquisition order the chosen indices form the round-robin sequence:
\* the i-th acquirer is handed (initial + i - 1) mod n, so no index is skipped
\* and none is handed to two callers in a row; and at most the last acquirer
\* is inside the service at any time.
C21_SerializedRoundRobin ==
    /\ \A i \in 1..Len(acquired) :
           PickOf(i) # 0 - 1 => PickOf(i) = (initial_index + i - 1) % backends
    /\ \A c \in Callers :
           cpc[c] \in {"select"} \cup IoPositions =>
               acquired # <<>> /\ acquired[Len(acquired)] = c

\* C21 witness: three requests, arriving by both rules, have each been handed
\* a backend of a two-backend service whose cursor started at 1; the first
\* one's exchange failed, and the sequence still went on and wrapped: 1, 0, 1.
C21_Witness ==
    /\ backends = 2 /\ initial_index = 1
    /\ Len(acquired) = 3
    /\ {via[c] : c \in Callers} = Rules
    /\ <<PickOf(1), PickOf(2), PickOf(3)>> = <<1, 0, 1>>
    /\ svc_outcome[acquired[1]].kind = "panic"

\* C22: the HttpService mutex is never held across network I/O: a request
\* that is dialing, handshaking or awaiting the backend's response does not
\* hold the lock (so a second request to the service can acquire it).
C22_LockNotHeldAcrossIo ==
    \A c \in Callers : cpc[c] \in IoPositions => holder # c

\* C29: when the upstream connect or the HTTP handshake of a forwarded
\* request fails, the handler does not panic: the client is answered with a
\* 502 response as a value.
C29_ConnectFailureIs502 ==
    \A c \in Callers :
        cpc[c] \in {"done", "panicked"} /\ svc_outcome[c].failed \in {"connect", "handshake"} =>
            /\ svc_outcome[c].kind = "response"
            /\ svc_outcome[c].status = 502

\* C30: for a TCP or UDP service configured with n >= 2 backends and the
\* round-robin policy, successive selections (get_connection, get_address)
\* cycle over all n backends: after n selections every backend has been used.
C30_StreamSelectionsCycle ==
    (/\ service_algo = "RoundRobin"
     /\ Len(service_backends) >= 2
     /\ Len(service_selections) >= Len(service_backends)) =>
        {service_selections[i].index : i \in 1..Len(service_selections)}
            = 0..(Len(service_backends) - 1)

\* The connections bound so far, and the one the table holds for a client.
Bound == 1..sockets
HasEntry(c) == client_map[c] # 0

\* The reaper has finished the scan of the tick of second t.
TickServed(t) ==
    \/ reaper.last_tick > t
    \/ reaper.last_tick = t /\ reaper.pc = "sleep"

\* C24: an entry on which no datagram has flowed for more than ttl is removed
\* no later than the first reaper tick after last activity + ttl: while the
\* entry is in the table no tick later than that instant has been served, and
\* (the reaper being scheduled within the second of its tick) the clock is
\* never more than one tick period past it.
C24_IdleEntryReapedWithinTick ==
    Alive =>
        \A c \in UdpClients :
            HasEntry(c) =>
                LET expiry == activity_at[client_map[c]] + Ttl
                IN  /\ \A t \in 0..MaxTime : t > expiry => ~TickServed(t)
                    /\ now <= expiry + 1

\* C24 witness: a connection idle since second 0 has been removed, and its
\* close signal sent, by the tick of second ttl + 1, the first one later than
\* its expiry.
C24_Witness ==
    \E s \in Bound :
        /\ activity_at[s] = 0
        /\ now = Ttl + 1 /\ reaper.last_tick = now
        /\ ~HasEntry(connections[s].client)
        /\ close_rx[s] = "sent"

\* A connection that was inserted into the table and is no longer there.
Reaped(s) == connections[s].is_serving /\ client_map[connections[s].client] # s

\* The serving task is over (or the whole process is).
TaskOver(s) == task[s] \in {"closed", "ended", "panicked"} \/ ~Alive

\* C25: when the reaper removes an entry it sends that entry's close signal,
\* and the entry's serving task then eventually terminates; once the task has
\* observed the close signal it forwards no further datagram to the client.
C25_ReapedTaskCloses ==
    /\ [](\A s \in SocketIds : Reaped(s) => close_rx[s] = "sent")
    /\ \A s \in SocketIds : (close_rx[s] = "sent") ~> TaskOver(s)
    /\ [][\A s \in SocketIds :
            task[s] = "closed" => task'[s] = "closed" /\ sending'[s] = NoSend]_vars

\* C25 witness: a reaped connection whose task took the close branch, after
\* it had forwarded an upstream datagram in the second of the reaping.
C25_Witness ==
    \E s \in Bound :
        /\ Reaped(s)
        /\ task[s] = "closed"
        /\ activity_at[s] = now

\* The ingress loop is inside relay_client_message, sending the datagram of
\* client `pending` on the socket RelaySocket.
Relaying == table_lock = "ingress"
RelaySocket == sending[IngressLoop].via

\* The connections of client c that the reaper has not closed.
LiveConnections(c) ==
    {s \in Bound : connections[s].client = c /\ close_rx[s] = "open"}

\* C26: the table holds at most one virtual connection per client address: a
\* client never has two connections that are not reaped, a table entry is the
\* client's own served connection, a socket is bound (one at a time) only for
\* a client that has no entry, and a datagram of a client that has an entry
\* is relayed on that entry's socket, leaving the table and the sockets as
\* they are.
C26_OneConnectionPerClient ==
    /\ [](\A c \in UdpClients :
            /\ Cardinality(LiveConnections(c)) <= 1
            /\ HasEntry(c) =>
                /\ connections[client_map[c]].client = c
                /\ connections[client_map[c]].is_serving
            /\ (Relaying /\ pending = c /\ HasEntry(c)) =>
                 sending[IngressLoop] =
                     SendTo(client_map[c], connections[client_map[c]].upstream_address))
    /\ [][/\ sockets' # sockets => sockets' = sockets + 1 /\ ~HasEntry(pending)
          /\ \A c \in UdpClients :
                (HasEntry(c) /\ pending = c /\ pending' = "") =>
                    client_map' = client_map /\ sockets' = sockets]_vars

\* C26 witness: both clients have an entry, each on its own socket, and a
\* later datagram of one of them is being relayed on that client's socket.
C26_Witness ==
    /\ \A c \in UdpClients : HasEntry(c)
    /\ Relaying
    /\ RelaySocket = client_map[pending]
    /\ sockets = 2

\* The reaper has removed (and closed) a connection of client c.
PriorReaped(c) == \E s \in Bound : connections[s].client = c /\ close_rx[s] = "sent"

\* C27: after the reaper has removed a client's entry, a datagram of that
\* client is never relayed on the removed connection's socket: it is sent to
\* the upstream on a socket whose connection is not closed, and when the
\* client has no connection left that socket is newly bound and, once the
\* send has returned, it is the client's fresh entry with a new serving task.
C27_FreshEntryAfterReaping ==
    /\ [](\A c \in UdpClients :
            (Relaying /\ pending = c /\ PriorReaped(c)) =>
                /\ RelaySocket \in LiveConnections(c)
                /\ sending[IngressLoop].to = UpstreamAddress)
    /\ [][\A c \in UdpClients :
            (/\ PriorReaped(c) /\ ~HasEntry(c)
             /\ Relaying /\ pending = c /\ pending' = "") =>
                /\ RelaySocket = sockets
                /\ client_map'[c] = RelaySocket
                /\ task[RelaySocket] = "unspawned" /\ task'[RelaySocket] = "select"
                /\ connections'[RelaySocket].close_tx = "Some"]_vars

\* C27 witness: the first connection of a client was reaped, and its next
\* datagram gave the client a new entry on the second socket, served by a new
\* task.
C27_Witness ==
    \E c \in UdpClients :
        /\ connections[1].client = c /\ close_rx[1] = "sent"
        /\ client_map[c] = 2
        /\ task[2] = "select"
        /\ ~Relaying

\* C28: a datagram reaching an entry's ephemeral socket from another address
\* than the entry's upstream is dropped: last_activity is exactly the time of
\* the last datagram that flowed (from the client, or from the upstream
\* address), and whatever the serving task forwards came from the upstream
\* address; a datagram from the upstream refreshes last_activity and is sent
\* to the entry's client on the server socket.
C28_OnlyUpstreamForwarded ==
    /\ [](\A s \in Bound :
            /\ connections[s].last_activity = activity_at[s]
            /\ task[s] = "send" =>
                /\ peer_addr[s] = connections[s].upstream_address
                /\ sending[s] = SendTo(ServerSocket, connections[s].client))
    /\ [][\A s \in SocketIds :
            (task[s] = "select" /\ task'[s] = "send") =>
                connections'[s].last_activity = now]_vars

\* C28 witness: a serving task is forwarding an upstream datagram that came a
\* second after its connection was created, and last_activity is that second.
C28_Witness ==
    \E s \in Bound :
        /\ task[s] = "send"
        /\ now = 1
        /\ connections[s].last_activity = now
        /\ HasEntry(connections[s].client)

\* C31: a route whose `server` names no configured server, or a rule whose
\* `backend` names no configured service, is a startup error: the cluster
\* never starts serving with such a route left aside.
C31_BadReferencesAbortStartup ==
    phase = "serving" =>
        \A sv \in RouteServerNames \ ServerNames : route_map[sv] = <<>>

\* C33: the cursor invariant: starting from cursor 0 with n >= 1 backends,
\* cursor < n in every reachable state, whatever the selections made, failed
\* dials included.
C33_CursorInRange ==
    (initial_index = 0 /\ backends >= 1) =>
        /\ current_connection_index < backends
        /\ current_connection_index = Len(selections) % backends

\* C33 witness: the cursor has wrapped around to 0 after a round in which a
\* dial failed.
C33_Witness ==
    /\ initial_index = 0
    /\ backends >= 2
    /\ Len(selections) = backends
    /\ current_connection_index = 0
    /\ \E i \in 1..Len(selections) : selections[i].result = "IoError"

\* C37: rule lookup does not fall through to later routes: when the first
\* route matching the Host has no rule matching the request, the request is
\* answered (404) on behalf of that route and handed to no backend, also when
\* a later route matches the Host and has a rule that matches the request.
C37_NoFallThrough ==
    (Handled /\ HostParses(req)) =>
        LET hits == RouteHits(ServedRoutes, HostnameOf(req))
        IN  (hits # {} /\ RuleHits(ServedRoutes[Min(hits)].rules, req) = {}) =>
                /\ outcome.kind = "response"
                /\ outcome.route = Min(hits)
                /\ outcome.rule = 0
                /\ outcome.backend = ""

\* C37 witness: two routes match the Host; the first has rules but none for
\* the request, the second has a rule that matches it; the answer is the
\* first route's 404.
C37_Witness ==
    /\ Handled /\ HostParses(req)
    /\ LET hits == RouteHits(ServedRoutes, HostnameOf(req))
       IN  /\ hits = {1, 2}
           /\ ServedRoutes[1].rules # <<>>
           /\ RuleHits(ServedRoutes[1].rules, req) = {}
           /\ RuleHits(ServedRoutes[2].rules, req) # {}
    /\ outcome.kind = "response"
    /\ outcome.status = StatusNotFound
    /\ outcome.route = 1

\* C38: EOF on one side of a pair ends relaying in both directions: once the
\* relay has read 0 bytes from the client the task is over and the client
\* stream dropped, no further read from the upstream is made, and the bytes
\* the upstream sent that were not yet read (all that the client has not been
\* written) stay undelivered; symmetrically for a 0-byte read from the
\* upstream.
ClientEofRead == last_read = [side |-> "client", n |-> 0, ok |-> TRUE]
UpstreamEofRead == last_read = [side |-> "upstream", n |-> 0, ok |-> TRUE]
C38_EofEndsBothDirections ==
    /\ [](ClientEofRead =>
            /\ ~TaskRunning
            /\ peer_stream_wr = "dropped"
            /\ written_client \o upstream_rx = UpstreamStream)
    /\ [](UpstreamEofRead =>
            /\ ~TaskRunning
            /\ upstream_wr = "dropped"
            /\ written_upstream \o peer_stream_rx = ClientStream)
    /\ [][ClientEofRead =>
            (read_upstream' = read_upstream /\ written_client' = written_client)]_vars
    /\ [][UpstreamEofRead =>
            (read_client' = read_client /\ written_upstream' = written_upstream)]_vars

\* C38 witness: the client half-closed after its bytes were relayed; the
\* upstream's reply was in flight when the relay read the client's EOF, and
\* the task ended cleanly with the reply unread.
C38_Witness ==
    /\ tpc = "done"
    /\ ClientEofRead
    /\ written_upstream = ClientStream /\ client_sent > 0
    /\ upstream_rx # <<>>
    /\ Len(written_client) < upstream_sent

\* C32: the reaper removes an entry only if it is stale at the moment of
\* removal: no step that removes an entry from the table finds its
\* last_activity within the ttl, whatever the serving task did meanwhile.
C32_RemovedOnlyIfStale ==
    [][\A c \in UdpClients :
          (client_map[c] # 0 /\ client_map'[c] = 0) =>
              IsStale(connections[client_map[c]].last_activity, now, Ttl)]_vars

\* C34: an I/O failure while relaying one client's datagram to the upstream
\* (the ephemeral socket cannot be bound, or the send on it fails) is confined
\* to that virtual connection: after the failing step the ingress loop is
\* still running and the table lock is free.
C34_RelayFailureConfined ==
    [][(IngressRelay(FALSE) \/ IngressSent(FALSE)) =>
          (udp_run' = "running" /\ table_lock' = "")]_vars

\* C35: every entry present in the client table has a running serving task:
\* once an entry's task has terminated (upstream receive error, failed send to
\* the client), the entry is out of the table or served by a task again.
C35_EveryEntryServed ==
    \A c \in UdpClients :
        HasEntry(c) => task[client_map[c]] \in {"select", "send"}

\* C36: a virtual connection's upstream address is fixed at entry creation:
\* the address stored in a built connection never changes, every datagram the
\* ingress loop relays on a connection's socket goes to that stored address,
\* and a reply is relayed back only when it came from that address.
C36_UpstreamAddressFixed ==
    /\ [][\A s \in SocketIds :
             connections[s].client # "" =>
                 connections'[s].upstream_address = connections[s].upstream_address]_vars
    /\ [](sending[IngressLoop].via \in SocketIds =>
             sending[IngressLoop].to =
                 connections[sending[IngressLoop].via].upstream_address)
    /\ [](\A s \in SocketIds :
             task[s] = "send" => peer_addr[s] = connections[s].upstream_address)

\* C36 witness: a later datagram of a client whose entry was created at an
\* earlier second is on its way to the address stored in the entry, while the
\* entry's task relays a reply from that address.
C36_Witness ==
    /\ Relaying
    /\ HasEntry(pending)
    /\ now > 0
    /\ LET s == client_map[pending]
       IN  /\ sending[IngressLoop] = SendTo(s, connections[s].upstream_address)
           /\ task[s] = "send"
           /\ peer_addr[s] = connections[s].upstream_address

\* C40: every entry in the client table is serving and holds a close sender
\* (its one task was spawned before the insert), so each step that reaps an
\* entry delivers a close signal to exactly one task: the signal is sent on
\* the entry's channel and the entry's task is there to receive it.
C40_ReapingClosesOneTask ==
    /\ [](\A c \in UdpClients :
             HasEntry(c) =>
                 /\ connections[client_map[c]].is_serving
                 /\ connections[client_map[c]].close_tx = "Some"
                 /\ task[client_map[c]] # "unspawned")
    /\ [][\A c \in UdpClients :
             (client_map[c] # 0 /\ client_map'[c] = 0) =>
                 /\ close_rx[client_map[c]] = "open"
                 /\ close_rx'[client_map[c]] = "sent"
                 /\ task[client_map[c]] \in {"select", "send"}]_vars

\* The reaper's tick is due and it asks for the table.
ReaperWaits == Alive /\ reaper.pc = "sleep" /\ reaper.last_tick < now
\* The ingress loop holds a datagram and asks for the table. (A datagram of a
\* client without an entry is not taken up once MaxSockets sockets are bound.)
IngressWaits ==
    /\ udp_run = "running" /\ pending # "" /\ table_lock # "ingress"
    /\ HasEntry(pending) \/ sockets < MaxSockets

====
